---------------------------- MODULE Spec2Model ----------------------------
(***************************************************************************)
(* Group membership and join-request engine of l-yoga                      *)
(* (controllers/groupController.js, models/Group.js with its JoinRequest   *)
(* schema, models/User.js, the checkRole middleware of the routes file).   *)
(*                                                                         *)
(* One group slot (every createGroup carries the same name), the users of  *)
(* the User collection, the JoinRequest collection and the joinedGroups    *)
(* index.  A request handler is a sequence of steps; a step is one awaited *)
(* database call followed by the synchronous code that runs up to the next *)
(* await (Node runs that code without interleaving).  Spec runs every      *)
(* handler to completion in one action; SpecConc interleaves the steps of  *)
(* requests that arrive together; SpecFail runs one request step by step   *)
(* and lets an awaited database call throw.                                *)
(*                                                                         *)
(* A JavaScript array is modelled up to order, as the number of times each *)
(* id occurs in it: no code of the repository reads a position.            *)
(***************************************************************************)
EXTENDS Integers, Sequences, FiniteSets, TLC

\* ------------------------------------------------------------- bounds
NumUsers == 3
MaxRequests == 2
MaxProcs == 2
MaxFailures == 1
MaxCap == 2
MaxMessages == 1
MaxTextLen == 2

\* --------------------------------------------------------- JS values
\* JavaScript's undefined: the value of an absent property or route parameter.
Undefined == -1
\* null: the result of a query that matches nothing.
Null == [null |-> TRUE]
\* The _id of the one group of the model.
TheGroupId == 1

Users == 1..NumUsers
\* An id that names no stored user.
GhostId == NumUsers + 1
UserIds == Users \cup {GhostId}
Keys == {"k1"}
GroupTypes == {"public", "private"}
RoleTokens == {"admin", "member", "moderator"}

\* ------------------------------------------------------------ arrays
EmptyArr == [u \in UserIds |-> 0]

Includes(arr, x) == x \in DOMAIN arr /\ arr[x] > 0

Push(arr, x) == [arr EXCEPT ![x] = @ + 1]

Pull(arr, x) == IF x \in DOMAIN arr THEN [arr EXCEPT ![x] = 0] ELSE arr

RECURSIVE SumOver(_, _)
SumOver(arr, S) ==
  IF S = {} THEN 0
  ELSE LET x == CHOOSE y \in S : TRUE IN arr[x] + SumOver(arr, S \ {x})

Length(arr) == SumOver(arr, DOMAIN arr)

ElemsOf(arr) == {u \in DOMAIN arr : arr[u] > 0}

\* a >= b in JavaScript, for a a number and b a number or undefined
\* (undefined converts to NaN, and every comparison with NaN is false).
JsGe(a, b) == IF b = Undefined THEN FALSE ELSE a >= b

\* Truthiness of a number or undefined.
Truthy(v) == v # Undefined /\ v # 0

\* ------------------------------------------------------------ schema
\* The paths groupSchema declares.  Mongoose (strict mode) drops every other
\* field handed to the constructor.
GroupSchemaPaths ==
  {"name", "type", "description", "owner", "members", "admins",
   "encryptionKey", "createdAt"}

\* A property read on a document: undefined when the document has no such path.
Prop(doc, path) == IF path \in DOMAIN doc THEN doc[path] ELSE Undefined

\* new Group(fields): the fields the schema declares, the encryptionKey default
\* filled in by the schema's generator (key is the value it draws).
NewGroup(fields, key) ==
  LET kept == (DOMAIN fields) \cap GroupSchemaPaths
      base == [p \in kept |-> fields[p]]
  IN  IF "encryptionKey" \in kept THEN base
      ELSE [p \in kept \cup {"encryptionKey"} |->
              IF p = "encryptionKey" THEN key ELSE base[p]]

\* groupSchema.pre('save'): the modifications the hook registers on the local
\* document (the owner pushed into members and admins when missing).
PreSaveOps(local) ==
  (IF ~Includes(local.members, local.owner)
     THEN {[kind |-> "pushMember", val |-> local.owner]} ELSE {})
  \cup
  (IF ~Includes(local.admins, local.owner)
     THEN {[kind |-> "pushAdmin", val |-> local.owner]} ELSE {})

\* One registered modification applied to a group document.
ApplyOp(doc, o) ==
  CASE o.kind = "pushMember" -> [doc EXCEPT !.members = Push(@, o.val)]
    [] o.kind = "pullMember" -> [doc EXCEPT !.members = Pull(@, o.val)]
    [] o.kind = "pushAdmin"  -> [doc EXCEPT !.admins = Push(@, o.val)]
    [] o.kind = "pullAdmin"  -> [doc EXCEPT !.admins = Pull(@, o.val)]
    [] o.kind = "setOwner"   -> [doc EXCEPT !.owner = o.val]

\* A set of modifications applied to a document.  A handler registers at most
\* one modification per kind and never a push and a pull of one array, so the
\* order of application does not matter.
RECURSIVE ApplyOps(_, _)
ApplyOps(doc, ops) ==
  IF ops = {} THEN doc
  ELSE LET o == CHOOSE x \in ops : TRUE IN ApplyOps(ApplyOp(doc, o), ops \ {o})

\* group.save() of a document read earlier (orig) and modified locally (ops):
\* the pre-save hook runs on the local document, then Mongoose sends the
\* registered modifications ($push, $pullAll, $set of owner) as one atomic
\* update of the stored document, without a version condition.
SaveGroup(stored, orig, ops) ==
  ApplyOps(stored, ops \cup PreSaveOps(ApplyOps(orig, ops)))

\* ----------------------------------------------------- join requests
Statuses == {"pending", "approved", "rejected"}

\* new JoinRequest({group, user, status: 'pending'}): processedAt has no default.
NewRequest(user) ==
  [user |-> user, status |-> "pending", processedAt |-> Undefined]

\* JoinRequest.findOne({group, user, status in sts}): the index of the first
\* matching record, 0 when none matches.
FindRequest(reqs, user, sts) ==
  LET hits == {i \in 1..Len(reqs) : reqs[i].user = user /\ reqs[i].status \in sts}
  IN  IF hits = {} THEN 0 ELSE CHOOSE i \in hits : \A j \in hits : i <= j

\* The JoinRequest collection without its unique index.
NoUniqueIndex(reqs, user) == FALSE

\* The unique partial index {group, user, status} over status = 'pending':
\* whether inserting a pending record for user raises a duplicate key error.
DuplicateKey(reqs, user) ==
  \E i \in 1..Len(reqs) : reqs[i].user = user /\ reqs[i].status = "pending"

\* -------------------------------------------------------- encryption
\* A string is the sequence of its UTF-16 code units, a Buffer the sequence of
\* its bytes.
ReplacementChar == 65533

IsHighSurrogate(c) == c >= 55296 /\ c <= 56319

IsLowSurrogate(c) == c >= 56320 /\ c <= 57343

\* The UTF-8 bytes of one code point.
Utf8OfCodePoint(cp) ==
  IF cp < 128 THEN <<cp>>
  ELSE IF cp < 2048 THEN <<192 + (cp \div 64), 128 + (cp % 64)>>
  ELSE IF cp < 65536
    THEN <<224 + (cp \div 4096), 128 + ((cp \div 64) % 64), 128 + (cp % 64)>>
  ELSE <<240 + (cp \div 262144), 128 + ((cp \div 4096) % 64),
         128 + ((cp \div 64) % 64), 128 + (cp % 64)>>

\* Buffer.from(str, 'utf8'), as cipher.update(text, 'utf8', ...) reads its
\* input: a surrogate pair is one code point, a surrogate without its partner
\* is written as U+FFFD.
RECURSIVE Utf8Encode(_)
Utf8Encode(str) ==
  IF str = <<>> THEN <<>>
  ELSE LET c == Head(str) IN
       IF IsHighSurrogate(c) /\ Len(str) >= 2 /\ IsLowSurrogate(str[2])
         THEN Utf8OfCodePoint(65536 + (c - 55296) * 1024 + (str[2] - 56320))
                \o Utf8Encode(Tail(Tail(str)))
       ELSE IF IsHighSurrogate(c) \/ IsLowSurrogate(c)
         THEN Utf8OfCodePoint(ReplacementChar) \o Utf8Encode(Tail(str))
       ELSE Utf8OfCodePoint(c) \o Utf8Encode(Tail(str))

IsContinuation(bytes, i) == i <= Len(bytes) /\ bytes[i] >= 128 /\ bytes[i] <= 191

\* The code units of a code point.
UnitsOfCodePoint(cp) ==
  IF cp < 65536 THEN <<cp>>
  ELSE <<55296 + ((cp - 65536) \div 1024), 56320 + ((cp - 65536) % 1024)>>

\* buf.toString('utf8'), as decipher.update(..., 'utf8') writes its output: a
\* byte that starts no well-formed sequence is read as U+FFFD.
RECURSIVE Utf8Decode(_)
Utf8Decode(bytes) ==
  IF bytes = <<>> THEN <<>>
  ELSE LET b == bytes[1]
           rest(n) == SubSeq(bytes, n + 1, Len(bytes))
           cp2 == (b - 192) * 64 + (bytes[2] - 128)
           cp3 == (b - 224) * 4096 + (bytes[2] - 128) * 64 + (bytes[3] - 128)
           cp4 == (b - 240) * 262144 + (bytes[2] - 128) * 4096
                    + (bytes[3] - 128) * 64 + (bytes[4] - 128)
       IN  IF b < 128 THEN <<b>> \o Utf8Decode(rest(1))
           ELSE IF b >= 194 /\ b <= 223 /\ IsContinuation(bytes, 2)
             THEN <<cp2>> \o Utf8Decode(rest(2))
           ELSE IF b >= 224 /\ b <= 239 /\ IsContinuation(bytes, 2)
                   /\ IsContinuation(bytes, 3)
                   /\ cp3 >= 2048 /\ ~(cp3 >= 55296 /\ cp3 <= 57343)
             THEN <<cp3>> \o Utf8Decode(rest(3))
           ELSE IF b >= 240 /\ b <= 244 /\ IsContinuation(bytes, 2)
                   /\ IsContinuation(bytes, 3) /\ IsContinuation(bytes, 4)
                   /\ cp4 >= 65536 /\ cp4 <= 1114111
             THEN UnitsOfCodePoint(cp4) \o Utf8Decode(rest(4))
           ELSE <<ReplacementChar>> \o Utf8Decode(rest(1))

HexDigits == <<"0", "1", "2", "3", "4", "5", "6", "7",
               "8", "9", "a", "b", "c", "d", "e", "f">>

\* buf.toString('hex'): two digits per byte.
RECURSIVE ToHex(_)
ToHex(bytes) ==
  IF bytes = <<>> THEN <<>>
  ELSE <<HexDigits[(bytes[1] \div 16) + 1], HexDigits[(bytes[1] % 16) + 1]>>
         \o ToHex(Tail(bytes))

HexValue(d) == (CHOOSE i \in 1..16 : HexDigits[i] = d) - 1

\* Buffer.from(hex, 'hex'): one byte per pair of digits.
RECURSIVE FromHex(_)
FromHex(hex) ==
  IF Len(hex) < 2 THEN <<>>
  ELSE <<HexValue(hex[1]) * 16 + HexValue(hex[2])>> \o FromHex(Tail(Tail(hex)))

\* Bitwise exclusive or of two bytes.
RECURSIVE Xor(_, _)
Xor(a, b) ==
  IF a = 0 THEN b
  ELSE IF b = 0 THEN a
  ELSE ((a + b) % 2) + 2 * Xor(a \div 2, b \div 2)

XorBlock(x, y) == [i \in 1..Len(x) |-> Xor(x[i], y[i])]

\* The block size of aes-256-cbc, in bytes.
BlockSize == 16

\* The keys generateKey can return (32 random bytes in base64), and the bytes
\* Buffer.from(keyBase64, 'base64') reads from each.
CryptoKeys == {"k1", "k2", "k3"}

KeyMaterial(keyBase64) ==
  CASE keyBase64 = "k1" -> 7
    [] keyBase64 = "k2" -> 11
    [] keyBase64 = "k3" -> 13

\* The block cipher, a keyed permutation of the blocks.  AES itself is not
\* part of the repository; this permutation stands for it: as with AES,
\* another key sends a block to an unrelated block.
BlockEncrypt(k, block) == [i \in 1..BlockSize |-> (block[i] + k * i) % 256]

BlockDecrypt(k, block) == [i \in 1..BlockSize |-> (block[i] + 256 * k - k * i) % 256]

\* The padding cipher.final() adds: n bytes of value n, 1 <= n <= BlockSize.
Pkcs7Pad(bytes) ==
  LET n == BlockSize - (Len(bytes) % BlockSize) IN
  bytes \o [i \in 1..n |-> n]

\* Whether decipher.final() accepts the padding of the decrypted bytes.
PaddingOk(bytes) ==
  /\ Len(bytes) >= BlockSize
  /\ LET n == bytes[Len(bytes)] IN
     /\ n >= 1 /\ n <= BlockSize
     /\ \A i \in (Len(bytes) - n + 1)..Len(bytes) : bytes[i] = n

Pkcs7Unpad(bytes) == SubSeq(bytes, 1, Len(bytes) - bytes[Len(bytes)])

\* Cipher block chaining: each block is mixed with the block before it in the
\* ciphertext, the first one with the iv.
RECURSIVE CbcEncrypt(_, _, _)
CbcEncrypt(k, prev, bytes) ==
  IF bytes = <<>> THEN <<>>
  ELSE LET c == BlockEncrypt(k, XorBlock(SubSeq(bytes, 1, BlockSize), prev)) IN
       c \o CbcEncrypt(k, c, SubSeq(bytes, BlockSize + 1, Len(bytes)))

RECURSIVE CbcDecrypt(_, _, _)
CbcDecrypt(k, prev, bytes) ==
  IF bytes = <<>> THEN <<>>
  ELSE LET c == SubSeq(bytes, 1, BlockSize) IN
       XorBlock(BlockDecrypt(k, c), prev)
         \o CbcDecrypt(k, c, SubSeq(bytes, BlockSize + 1, Len(bytes)))

\* encrypt(text, keyBase64); iv is the value crypto.randomBytes(16) returns.
Encrypt(text, keyBase64, iv) ==
  LET key == KeyMaterial(keyBase64) IN
  [encryptedData |-> ToHex(CbcEncrypt(key, iv, Pkcs7Pad(Utf8Encode(text)))),
   iv |-> ToHex(iv)]

\* decrypt(encryptedData, keyBase64, ivHex): the string it returns, or the
\* error createDecipheriv or decipher.final() throws.
Decrypt(encryptedData, keyBase64, ivHex) ==
  LET key == KeyMaterial(keyBase64)
      iv == FromHex(ivHex)
      data == FromHex(encryptedData)
      plain == CbcDecrypt(key, iv, data)
  IN  IF Len(iv) # BlockSize \/ data = <<>> \/ Len(data) % BlockSize # 0
        THEN [thrown |-> TRUE, value |-> <<>>]
      ELSE IF ~PaddingOk(plain) THEN [thrown |-> TRUE, value |-> <<>>]
      ELSE [thrown |-> FALSE, value |-> Utf8Decode(Pkcs7Unpad(plain))]

\* ------------------------------------------------------------- state
VARIABLES
  group,          \* the stored Group document, or Null
  joinRequests,   \* the JoinRequest collection, in insertion order
  joinedGroups,   \* per user, the occurrences of the group id in joinedGroups
  asked,          \* the maxMembers of the request body that created the group
  procs,          \* per request slot, the request in flight or just answered
  failures,       \* database calls that have thrown so far
  messages,       \* the Message collection, in insertion order
  cipher          \* a use of the encryption service: its inputs and outputs

vars == <<group, joinRequests, joinedGroups, asked, procs, failures, messages, cipher>>

Procs == 1..MaxProcs

DB ==
  [group |-> group, joinRequests |-> joinRequests, joinedGroups |-> joinedGroups,
   asked |-> asked, messages |-> messages]

SetDB(d) ==
  /\ group' = d.group
  /\ joinRequests' = d.joinRequests
  /\ joinedGroups' = d.joinedGroups
  /\ asked' = d.asked
  /\ messages' = d.messages

\* What a response carries besides its message: the group documents (or the
\* parts of them) it holds, the message data, and the role and permissions
\* getGroupDetails reports.
EmptyBody ==
  [groups |-> <<>>, data |-> <<>>, userRole |-> "", joinRequestStatus |-> "",
   canPost |-> FALSE, canInvite |-> FALSE, canManage |-> FALSE]

IdleProc ==
  [op |-> "none", actor |-> Undefined, target |-> Undefined, role |-> "",
   gtype |-> "", maxMembers |-> Undefined, key |-> "", content |-> <<>>, iv |-> <<>>,
   pc |-> "idle", g |-> Null, req |-> 0, ops |-> {}, status |-> 0, msg |-> "",
   body |-> EmptyBody]

\* The encryption service at rest: nothing encrypted or decrypted yet.
IdleCipher ==
  [phase |-> "idle", text |-> <<>>, key |-> "", encryptedData |-> <<>>, iv |-> <<>>,
   useKey |-> "", useIv |-> <<>>, thrown |-> FALSE, result |-> <<>>]

NewProc(op, actor, target) ==
  [IdleProc EXCEPT !.op = op, !.actor = actor, !.target = target, !.pc = "start"]

\* res.status(code).json({message}): the handler returns.
Respond(pr, code, msg) == [pr EXCEPT !.pc = "done", !.status = code, !.msg = msg]

\* res.status(code).json(body)
RespondBody(pr, code, body) == [Respond(pr, code, "") EXCEPT !.body = body]

Goto(pr, pc) == [pr EXCEPT !.pc = pc]

Out(db, pr) == [db |-> db, pr |-> pr]

\* Group.findById(id)
FindGroupById(db, id) == IF id = TheGroupId THEN db.group ELSE Null

\* User.findById(id)
UserExists(id) == id \in Users

\* User.findByIdAndUpdate(id, {$push: {joinedGroups: group._id}})
PushJoined(db, id) ==
  IF UserExists(id) THEN [db EXCEPT !.joinedGroups[id] = @ + 1] ELSE db

\* User.findByIdAndUpdate(id, {$pull: {joinedGroups: group._id}})
PullJoined(db, id) ==
  IF UserExists(id) THEN [db EXCEPT !.joinedGroups[id] = 0] ELSE db

\* The awaited group.save() of a handler: the stored document is updated, or
\* the save throws when the document is gone.
DoSave(db, pr, nextPc) ==
  IF db.group = Null THEN Out(db, Respond(pr, 500, "Server error"))
  ELSE Out([db EXCEPT !.group = SaveGroup(db.group, pr.g, pr.ops)], Goto(pr, nextPc))


\* A handler's last awaited group.save(), followed by its response.
DoSaveAndRespond(db, pr, code, msg) ==
  LET o == DoSave(db, pr, "saved") IN
  IF o.pr.pc = "saved" THEN Out(o.db, Respond(o.pr, code, msg)) ELSE o

\* ------------------------------------------------------------ routes
\* The route table with the join-request routes open to admins too.
AdminsDecideToo(op) ==
  CASE op \in {"transfer", "banish", "delete"} -> {"owner"}
    [] op \in {"approve", "decline", "updateRole", "addMember", "removeMember", "settings"}
         -> {"owner", "admin"}
    [] OTHER -> {}

\* The roles a route's checkRole middleware asks for; {} for a route without it.
RouteRoles(op) ==
  CASE op \in {"transfer", "approve", "decline", "banish", "delete"} -> {"owner"}
    [] op \in {"updateRole", "addMember", "removeMember", "settings"} -> {"owner", "admin"}
    [] OTHER -> {}

\* req.params as the route's path fills it: every group route names the group
\* :id; the member, join-request and banish routes name the user :userId.
RouteParams(op, target) ==
  IF op \in {"approve", "decline", "banish", "updateRole", "addMember", "removeMember"}
    THEN [id |-> TheGroupId, userId |-> target]
  ELSE IF op \in {"sendMessage", "getMessages"} THEN [groupId |-> TheGroupId]
  ELSE [id |-> TheGroupId]

\* roleMiddleware: checkRole(roles)
CheckRole(db, pr) ==
  LET g == FindGroupById(db, Prop(RouteParams(pr.op, pr.target), "id"))
      roles == RouteRoles(pr.op)
      hasRole == \/ "owner" \in roles /\ g.owner = pr.actor
                 \/ "admin" \in roles /\ Includes(g.admins, pr.actor)
  IN  IF g = Null THEN Out(db, Respond(pr, 404, "Group not found"))
      ELSE IF ~hasRole THEN Out(db, Respond(pr, 403, "Insufficient permissions"))
      ELSE Out(db, Goto(pr, "h1"))

\* The request enters the route: the middleware when the route has one, else
\* the handler.
Enter(db, pr) ==
  IF RouteRoles(pr.op) # {} THEN Out(db, Goto(pr, "mw")) ELSE Out(db, Goto(pr, "h1"))

\* ---------------------------------------------------------- handlers
\* createGroup without the update of the joinedGroups of the creator.
CreateSkipsIndex(db, pr) ==
  CASE pr.pc = "h1" ->
         IF db.group # Null
           THEN Out(db, Respond(pr, 400, "Group name already exists"))
           ELSE Out(db, [pr EXCEPT !.pc = "save",
                  !.g = NewGroup([name |-> "n", type |-> pr.gtype,
                                  maxMembers |-> pr.maxMembers, owner |-> pr.actor,
                                  members |-> Push(EmptyArr, pr.actor),
                                  admins |-> Push(EmptyArr, pr.actor)], pr.key)])
    [] pr.pc = "save" ->
         Out([db EXCEPT !.group = ApplyOps(pr.g, PreSaveOps(pr.g)),
                        !.asked = pr.maxMembers],
             Respond(pr, 201, "Group created successfully"))

\* createGroup
CreateGroupStep(db, pr) ==
  CASE pr.pc = "h1" ->
         \* Group.findOne({name})
         IF db.group # Null
           THEN Out(db, Respond(pr, 400, "Group name already exists"))
           ELSE Out(db, [pr EXCEPT !.pc = "save",
                  !.g = NewGroup([name |-> "n", type |-> pr.gtype,
                                  maxMembers |-> pr.maxMembers, owner |-> pr.actor,
                                  members |-> Push(EmptyArr, pr.actor),
                                  admins |-> Push(EmptyArr, pr.actor)], pr.key)])
    [] pr.pc = "save" ->
         \* group.save() of a new document: an insert, after the pre-save hook
         Out([db EXCEPT !.group = ApplyOps(pr.g, PreSaveOps(pr.g)),
                        !.asked = pr.maxMembers], Goto(pr, "user"))
    [] pr.pc = "user" ->
         Out(PushJoined(db, pr.actor),
             [Respond(pr, 201, "Group created successfully") EXCEPT !.body.groups =
                <<[name |-> pr.g.name, type |-> pr.g.type, owner |-> pr.g.owner]>>])

\* joinGroup taking the caller in whatever the type of the group.
JoinAnyType(db, pr) ==
  CASE pr.pc = "h1" ->
         LET g == FindGroupById(db, Prop(RouteParams(pr.op, pr.target), "id")) IN
         IF g = Null THEN Out(db, Respond(pr, 404, "Group not found"))
         ELSE IF Includes(g.members, pr.actor)
           THEN Out(db, Respond(pr, 400, "Already a member of this group"))
         ELSE IF JsGe(Length(g.members), Prop(g, "maxMembers"))
           THEN Out(db, Respond(pr, 400, "Group is full"))
         ELSE Out(db, [pr EXCEPT !.pc = "save", !.g = g,
                        !.ops = {[kind |-> "pushMember", val |-> pr.actor]}])
    [] pr.pc = "save" -> DoSave(db, pr, "user")
    [] pr.pc = "user" ->
         Out(PushJoined(db, pr.actor), Respond(pr, 200, "Successfully joined the group"))

\* joinGroup
JoinGroupStep(db, pr) ==
  CASE pr.pc = "h1" ->
         LET g == FindGroupById(db, Prop(RouteParams(pr.op, pr.target), "id")) IN
         IF g = Null THEN Out(db, Respond(pr, 404, "Group not found"))
         ELSE IF Includes(g.members, pr.actor)
           THEN Out(db, Respond(pr, 400, "Already a member of this group"))
         ELSE IF JsGe(Length(g.members), Prop(g, "maxMembers"))
           THEN Out(db, Respond(pr, 400, "Group is full"))
         ELSE IF g.type = "public"
           THEN Out(db, [pr EXCEPT !.pc = "save", !.g = g,
                          !.ops = {[kind |-> "pushMember", val |-> pr.actor]}])
         ELSE Out(db, [pr EXCEPT !.pc = "findReq", !.g = g])
    [] pr.pc = "save" -> DoSave(db, pr, "user")
    [] pr.pc = "user" ->
         Out(PushJoined(db, pr.actor), Respond(pr, 200, "Successfully joined the group"))
    [] pr.pc = "findReq" ->
         \* JoinRequest.findOne({group, user}): any status
         IF FindRequest(db.joinRequests, pr.actor, Statuses) # 0
           THEN Out(db, Respond(pr, 400, "Join request already sent"))
           ELSE Out(db, Goto(pr, "insert"))
    [] pr.pc = "insert" ->
         IF DuplicateKey(db.joinRequests, pr.actor)
           THEN Out(db, Respond(pr, 500, "Server error"))
           ELSE Out([db EXCEPT !.joinRequests = Append(@, NewRequest(pr.actor))],
                    Respond(pr, 200, "Join request sent successfully"))

\* requestJoinPrivateGroup with the check of the group's type forgotten.
RequestJoinAnyType(db, pr) ==
  CASE pr.pc = "h1" ->
         LET g == FindGroupById(db, Prop(RouteParams(pr.op, pr.target), "id")) IN
         IF g = Null THEN Out(db, Respond(pr, 404, "Group not found"))
         ELSE IF Includes(g.members, pr.actor)
           THEN Out(db, Respond(pr, 400, "Already a member of this group"))
         ELSE Out(db, [pr EXCEPT !.pc = "findReq", !.g = g])
    [] pr.pc = "findReq" ->
         IF FindRequest(db.joinRequests, pr.actor, {"pending"}) # 0
           THEN Out(db, Respond(pr, 400, "Join request already pending"))
           ELSE Out(db, Goto(pr, "insert"))
    [] pr.pc = "insert" ->
         IF DuplicateKey(db.joinRequests, pr.actor)
           THEN Out(db, Respond(pr, 500, "Server error"))
           ELSE Out([db EXCEPT !.joinRequests = Append(@, NewRequest(pr.actor))],
                    Respond(pr, 200, "Join request submitted"))

\* requestJoinPrivateGroup
RequestJoinStep(db, pr) ==
  CASE pr.pc = "h1" ->
         LET g == FindGroupById(db, Prop(RouteParams(pr.op, pr.target), "id")) IN
         IF g = Null THEN Out(db, Respond(pr, 404, "Group not found"))
         ELSE IF g.type # "private"
           THEN Out(db, Respond(pr, 400, "This group is not private"))
         ELSE IF Includes(g.members, pr.actor)
           THEN Out(db, Respond(pr, 400, "Already a member of this group"))
         ELSE Out(db, [pr EXCEPT !.pc = "findReq", !.g = g])
    [] pr.pc = "findReq" ->
         \* JoinRequest.findOne({group, user, status: 'pending'})
         IF FindRequest(db.joinRequests, pr.actor, {"pending"}) # 0
           THEN Out(db, Respond(pr, 400, "Join request already pending"))
           ELSE Out(db, Goto(pr, "insert"))
    [] pr.pc = "insert" ->
         IF DuplicateKey(db.joinRequests, pr.actor)
           THEN Out(db, Respond(pr, 500, "Server error"))
           ELSE Out([db EXCEPT !.joinRequests = Append(@, NewRequest(pr.actor))],
                    Respond(pr, 200, "Join request submitted"))

\* approveJoinRequest looking the request up without the status filter.
ApproveAnyStatus(db, pr) ==
  LET userId == Prop(RouteParams(pr.op, pr.target), "userId") IN
  CASE pr.pc = "h1" ->
         LET g == FindGroupById(db, Prop(RouteParams(pr.op, pr.target), "id")) IN
         IF g = Null THEN Out(db, Respond(pr, 404, "Group not found"))
         ELSE Out(db, [pr EXCEPT !.pc = "findReq", !.g = g])
    [] pr.pc = "findReq" ->
         LET i == FindRequest(db.joinRequests, userId, Statuses) IN
         IF i = 0 THEN Out(db, Respond(pr, 404, "Request not found"))
         ELSE IF ~Includes(pr.g.members, userId)
           THEN Out(db, [pr EXCEPT !.pc = "save", !.req = i,
                          !.ops = {[kind |-> "pushMember", val |-> userId]}])
         ELSE Out(db, [pr EXCEPT !.pc = "saveReq", !.req = i])
    [] pr.pc = "save" -> DoSave(db, pr, "saveReq")
    [] pr.pc = "saveReq" ->
         Out([db EXCEPT !.joinRequests[pr.req].status = "approved"], Goto(pr, "user"))
    [] pr.pc = "user" ->
         Out(PushJoined(db, userId), Respond(pr, 200, "Join request approved"))

\* approveJoinRequest
ApproveStep(db, pr) ==
  LET userId == Prop(RouteParams(pr.op, pr.target), "userId") IN
  CASE pr.pc = "h1" ->
         LET g == FindGroupById(db, Prop(RouteParams(pr.op, pr.target), "id")) IN
         IF g = Null THEN Out(db, Respond(pr, 404, "Group not found"))
         ELSE Out(db, [pr EXCEPT !.pc = "findReq", !.g = g])
    [] pr.pc = "findReq" ->
         LET i == FindRequest(db.joinRequests, userId, {"pending"}) IN
         IF i = 0 THEN Out(db, Respond(pr, 404, "Request not found"))
         ELSE IF ~Includes(pr.g.members, userId)
           THEN Out(db, [pr EXCEPT !.pc = "save", !.req = i,
                          !.ops = {[kind |-> "pushMember", val |-> userId]}])
         ELSE Out(db, [pr EXCEPT !.pc = "saveReq", !.req = i])
    [] pr.pc = "save" -> DoSave(db, pr, "saveReq")
    [] pr.pc = "saveReq" ->
         \* request.status = 'approved'; request.save(): a $set by _id
         Out([db EXCEPT !.joinRequests[pr.req].status = "approved"], Goto(pr, "user"))
    [] pr.pc = "user" ->
         Out(PushJoined(db, userId), Respond(pr, 200, "Join request approved"))

\* declineJoinRequest
DeclineStep(db, pr) ==
  LET userId == Prop(RouteParams(pr.op, pr.target), "userId")
      \* JoinRequest.findOneAndUpdate({group, user, status: 'pending'},
      \*                              {status: 'rejected'}): one atomic call
      i == FindRequest(db.joinRequests, userId, {"pending"})
  IN  IF i = 0 THEN Out(db, Respond(pr, 404, "Request not found"))
      ELSE Out([db EXCEPT !.joinRequests[i].status = "rejected"],
               Respond([pr EXCEPT !.req = i], 200, "Join request declined"))

\* leaveGroup with the pull from admins forgotten.
\* leaveGroup without the update of the joinedGroups of the user.
LeaveKeepsIndex(db, pr) ==
  CASE pr.pc = "h1" ->
         LET g == FindGroupById(db, Prop(RouteParams(pr.op, pr.target), "id")) IN
         IF g = Null THEN Out(db, Respond(pr, 404, "Group not found"))
         ELSE IF ~Includes(g.members, pr.actor)
           THEN Out(db, Respond(pr, 400, "Not a member of this group"))
         ELSE IF g.owner = pr.actor
           THEN Out(db, Respond(pr, 400, "Group owner cannot leave without transferring ownership"))
         ELSE Out(db, [pr EXCEPT !.pc = "save", !.g = g,
                        !.ops = {[kind |-> "pullMember", val |-> pr.actor],
                                 [kind |-> "pullAdmin", val |-> pr.actor]}])
    [] pr.pc = "save" -> DoSaveAndRespond(db, pr, 200, "Successfully left the group")

LeaveKeepsAdmin(db, pr) ==
  CASE pr.pc = "h1" ->
         LET g == FindGroupById(db, Prop(RouteParams(pr.op, pr.target), "id")) IN
         IF g = Null THEN Out(db, Respond(pr, 404, "Group not found"))
         ELSE IF ~Includes(g.members, pr.actor)
           THEN Out(db, Respond(pr, 400, "Not a member of this group"))
         ELSE IF g.owner = pr.actor
           THEN Out(db, Respond(pr, 400, "Group owner cannot leave without transferring ownership"))
         ELSE Out(db, [pr EXCEPT !.pc = "save", !.g = g,
                        !.ops = {[kind |-> "pullMember", val |-> pr.actor]}])
    [] pr.pc = "save" -> DoSave(db, pr, "user")
    [] pr.pc = "user" ->
         Out(PullJoined(db, pr.actor), Respond(pr, 200, "Successfully left the group"))

\* leaveGroup
LeaveGroupStep(db, pr) ==
  CASE pr.pc = "h1" ->
         LET g == FindGroupById(db, Prop(RouteParams(pr.op, pr.target), "id")) IN
         IF g = Null THEN Out(db, Respond(pr, 404, "Group not found"))
         ELSE IF ~Includes(g.members, pr.actor)
           THEN Out(db, Respond(pr, 400, "Not a member of this group"))
         ELSE IF g.owner = pr.actor
           THEN Out(db, Respond(pr, 400, "Group owner cannot leave without transferring ownership"))
         ELSE Out(db, [pr EXCEPT !.pc = "save", !.g = g,
                        !.ops = {[kind |-> "pullMember", val |-> pr.actor],
                                 [kind |-> "pullAdmin", val |-> pr.actor]}])
    [] pr.pc = "save" -> DoSave(db, pr, "user")
    [] pr.pc = "user" ->
         Out(PullJoined(db, pr.actor), Respond(pr, 200, "Successfully left the group"))

\* transferOwnership taking the admin role from the previous owner.
TransferDemotesPrevious(db, pr) ==
  CASE pr.pc = "h1" ->
         LET g == FindGroupById(db, Prop(RouteParams(pr.op, pr.target), "id")) IN
         IF g = Null THEN Out(db, Respond(pr, 404, "Group not found"))
         ELSE IF g.owner # pr.actor
           THEN Out(db, Respond(pr, 403, "Only group owner can transfer ownership"))
         ELSE Out(db, [pr EXCEPT !.pc = "findUser", !.g = g])
    [] pr.pc = "findUser" ->
         IF ~UserExists(pr.target) THEN Out(db, Respond(pr, 404, "New owner not found"))
         ELSE IF ~Includes(pr.g.members, pr.target)
           THEN Out(db, Respond(pr, 400, "New owner must be a group member"))
         ELSE Out(db, [pr EXCEPT !.pc = "save",
                        !.ops = {[kind |-> "setOwner", val |-> pr.target]}
                          \cup (IF pr.target # pr.g.owner
                                  THEN {[kind |-> "pullAdmin", val |-> pr.g.owner]} ELSE {})
                          \cup (IF ~Includes(pr.g.admins, pr.target)
                                  THEN {[kind |-> "pushAdmin", val |-> pr.target]} ELSE {})])
    [] pr.pc = "save" ->
         DoSaveAndRespond(db, pr, 200, "Ownership transferred successfully")

\* transferOwnership (newOwnerId = req.body.newOwnerId is pr.target)
TransferOwnershipStep(db, pr) ==
  CASE pr.pc = "h1" ->
         LET g == FindGroupById(db, Prop(RouteParams(pr.op, pr.target), "id")) IN
         IF g = Null THEN Out(db, Respond(pr, 404, "Group not found"))
         ELSE IF g.owner # pr.actor
           THEN Out(db, Respond(pr, 403, "Only group owner can transfer ownership"))
         ELSE Out(db, [pr EXCEPT !.pc = "findUser", !.g = g])
    [] pr.pc = "findUser" ->
         IF ~UserExists(pr.target) THEN Out(db, Respond(pr, 404, "New owner not found"))
         ELSE IF ~Includes(pr.g.members, pr.target)
           THEN Out(db, Respond(pr, 400, "New owner must be a group member"))
         ELSE Out(db, [pr EXCEPT !.pc = "save",
                        !.ops = {[kind |-> "setOwner", val |-> pr.target]}
                          \cup (IF ~Includes(pr.g.admins, pr.target)
                                  THEN {[kind |-> "pushAdmin", val |-> pr.target]} ELSE {})
                          \cup (IF ~Includes(pr.g.members, pr.target)
                                  THEN {[kind |-> "pushMember", val |-> pr.target]} ELSE {})])
    [] pr.pc = "save" ->
         DoSaveAndRespond(db, pr, 200, "Ownership transferred successfully")

\* updateMemberRole demoting whoever is named, the owner included: the save
\* writes the admins of the local document, the owner gone from them.
DemoteAlsoOwner(db, pr) ==
  CASE pr.pc = "h1" ->
         LET g == FindGroupById(db, Prop(RouteParams(pr.op, pr.target), "id")) IN
         IF g = Null THEN Out(db, Respond(pr, 404, "Group not found"))
         ELSE IF ~(g.owner = pr.actor) /\ ~Includes(g.admins, pr.actor)
           THEN Out(db, Respond(pr, 403, "Not authorized to manage roles"))
         ELSE Out(db, [pr EXCEPT !.pc = "findUser", !.g = g])
    [] pr.pc = "findUser" ->
         IF ~UserExists(pr.target) THEN Out(db, Respond(pr, 404, "User not found"))
         ELSE IF ~Includes(pr.g.members, pr.target)
           THEN Out(db, Respond(pr, 400, "User is not a group member"))
         ELSE IF pr.role = "admin"
           THEN Out(db, [pr EXCEPT !.pc = "save",
                          !.ops = IF ~Includes(pr.g.admins, pr.target)
                                    THEN {[kind |-> "pushAdmin", val |-> pr.target]} ELSE {}])
         ELSE IF pr.role = "member"
           THEN Out(db, [pr EXCEPT !.pc = "save",
                          !.ops = {[kind |-> "pullAdmin", val |-> pr.target]}])
         ELSE Out(db, Respond(pr, 400, "Invalid role specified"))
    [] pr.pc = "save" ->
         IF db.group = Null THEN Out(db, Respond(pr, 500, "Server error"))
         ELSE Out([db EXCEPT !.group = ApplyOps(db.group, pr.ops)],
                  Respond(pr, 200, "Member role updated successfully"))

\* updateMemberRole pushing into admins without looking whether the user is
\* in it already.
UpdateRolePushesAlways(db, pr) ==
  CASE pr.pc = "h1" ->
         LET g == FindGroupById(db, Prop(RouteParams(pr.op, pr.target), "id")) IN
         IF g = Null THEN Out(db, Respond(pr, 404, "Group not found"))
         ELSE IF ~(g.owner = pr.actor) /\ ~Includes(g.admins, pr.actor)
           THEN Out(db, Respond(pr, 403, "Not authorized to manage roles"))
         ELSE Out(db, [pr EXCEPT !.pc = "findUser", !.g = g])
    [] pr.pc = "findUser" ->
         IF ~UserExists(pr.target) THEN Out(db, Respond(pr, 404, "User not found"))
         ELSE IF ~Includes(pr.g.members, pr.target)
           THEN Out(db, Respond(pr, 400, "User is not a group member"))
         ELSE IF pr.role = "admin"
           THEN Out(db, [pr EXCEPT !.pc = "save",
                          !.ops = {[kind |-> "pushAdmin", val |-> pr.target]}])
         ELSE IF pr.role = "member"
           THEN IF pr.g.owner = pr.target
                  THEN Out(db, Respond(pr, 400, "Cannot change owner role"))
                  ELSE Out(db, [pr EXCEPT !.pc = "save",
                                 !.ops = {[kind |-> "pullAdmin", val |-> pr.target]}])
         ELSE Out(db, Respond(pr, 400, "Invalid role specified"))
    [] pr.pc = "save" ->
         DoSaveAndRespond(db, pr, 200, "Member role updated successfully")

\* updateMemberRole (userId and role come from req.body: pr.target, pr.role)
UpdateMemberRoleStep(db, pr) ==
  CASE pr.pc = "h1" ->
         LET g == FindGroupById(db, Prop(RouteParams(pr.op, pr.target), "id")) IN
         IF g = Null THEN Out(db, Respond(pr, 404, "Group not found"))
         ELSE IF ~(g.owner = pr.actor) /\ ~Includes(g.admins, pr.actor)
           THEN Out(db, Respond(pr, 403, "Not authorized to manage roles"))
         ELSE Out(db, [pr EXCEPT !.pc = "findUser", !.g = g])
    [] pr.pc = "findUser" ->
         IF ~UserExists(pr.target) THEN Out(db, Respond(pr, 404, "User not found"))
         ELSE IF ~Includes(pr.g.members, pr.target)
           THEN Out(db, Respond(pr, 400, "User is not a group member"))
         ELSE IF pr.role = "admin"
           THEN Out(db, [pr EXCEPT !.pc = "save",
                          !.ops = IF ~Includes(pr.g.admins, pr.target)
                                    THEN {[kind |-> "pushAdmin", val |-> pr.target]} ELSE {}])
         ELSE IF pr.role = "member"
           THEN IF pr.g.owner = pr.target
                  THEN Out(db, Respond(pr, 400, "Cannot change owner role"))
                  ELSE Out(db, [pr EXCEPT !.pc = "save",
                                 !.ops = {[kind |-> "pullAdmin", val |-> pr.target]}])
         ELSE Out(db, Respond(pr, 400, "Invalid role specified"))
    [] pr.pc = "save" ->
         DoSaveAndRespond(db, pr, 200, "Member role updated successfully")

\* banishUser
BanishUserStep(db, pr) ==
  LET userId == Prop(RouteParams(pr.op, pr.target), "userId") IN
  CASE pr.pc = "h1" ->
         LET g == FindGroupById(db, Prop(RouteParams(pr.op, pr.target), "id")) IN
         IF g = Null THEN Out(db, Respond(pr, 404, "Group not found"))
         ELSE IF g.owner = userId
           THEN Out(db, Respond(pr, 400, "Cannot banish group owner"))
         ELSE Out(db, [pr EXCEPT !.pc = "save", !.g = g,
                        !.ops = {[kind |-> "pullMember", val |-> userId],
                                 [kind |-> "pullAdmin", val |-> userId]}])
    [] pr.pc = "save" -> DoSave(db, pr, "user")
    [] pr.pc = "user" ->
         Out(PullJoined(db, userId), Respond(pr, 200, "User banished successfully"))

\* (a settings update that replaces the group's key)
SettingsRotateKey(db, pr) ==
  IF db.group = Null THEN Out(db, Respond(pr, 404, "Group not found"))
  ELSE Out([db EXCEPT !.group.encryptionKey = "k2"], Respond(pr, 200, "Settings updated"))

\* updateSettings
UpdateSettingsStep(db, pr) ==
  Out(db, Respond(pr, 501, "updateSettings not implemented yet."))

\* addMemberToGroup: reads req.params.groupId and req.params.userId
AddMemberStep(db, pr) ==
  LET params == RouteParams(pr.op, pr.target)
      userId == Prop(params, "userId")
  IN
  CASE pr.pc = "h1" ->
         LET g == FindGroupById(db, Prop(params, "groupId")) IN
         IF g = Null THEN Out(db, Respond(pr, 404, "Group not found"))
         ELSE Out(db, [pr EXCEPT !.pc = "findUser", !.g = g])
    [] pr.pc = "findUser" ->
         IF ~UserExists(userId) THEN Out(db, Respond(pr, 404, "User not found"))
         ELSE IF ~(pr.g.owner = pr.actor) /\ ~Includes(pr.g.admins, pr.actor)
           THEN Out(db, Respond(pr, 401, "Unauthorized: only owner or admin can add members"))
         ELSE IF Includes(pr.g.members, userId)
           THEN Out(db, Respond(pr, 400, "User already a member of the group"))
         ELSE IF Truthy(Prop(pr.g, "maxMembers"))
                 /\ JsGe(Length(pr.g.members), Prop(pr.g, "maxMembers"))
           THEN Out(db, Respond(pr, 400, "Group member limit reached"))
         ELSE Out(db, [pr EXCEPT !.pc = "save",
                        !.ops = {[kind |-> "pushMember", val |-> userId]}])
    [] pr.pc = "save" -> DoSave(db, pr, "user")
    [] pr.pc = "user" ->
         \* userToAdd.joinedGroups.push(group._id); userToAdd.save()
         Out(PushJoined(db, userId), Respond(pr, 200, "Member added to group successfully"))

\* removeMember: reads req.params.id and req.params.memberId
RemoveMemberStep(db, pr) ==
  LET params == RouteParams(pr.op, pr.target)
      memberId == Prop(params, "memberId")
  IN
  CASE pr.pc = "h1" ->
         LET g == FindGroupById(db, Prop(params, "id")) IN
         IF g = Null THEN Out(db, Respond(pr, 404, "Group not found"))
         ELSE IF ~(g.owner = pr.actor) /\ ~Includes(g.admins, pr.actor)
           THEN Out(db, Respond(pr, 403, "Not authorized to remove members"))
         ELSE IF ~Includes(g.members, memberId)
           THEN Out(db, Respond(pr, 400, "User is not a member of this group"))
         ELSE IF g.owner = memberId
           THEN Out(db, Respond(pr, 400, "Cannot remove the group owner"))
         ELSE Out(db, [pr EXCEPT !.pc = "save", !.g = g,
                        !.ops = {[kind |-> "pullMember", val |-> memberId],
                                 [kind |-> "pullAdmin", val |-> memberId]}])
    [] pr.pc = "save" -> DoSave(db, pr, "user")
    [] pr.pc = "user" ->
         Out(PullJoined(db, memberId), Respond(pr, 200, "Member removed successfully"))

\* Whether groupController.js binds the identifier Message (it requires Group,
\* JoinRequest and User only): a use of an unbound identifier throws.
MessageBound == FALSE

\* deleteGroup
DeleteGroupStep(db, pr) ==
  CASE pr.pc = "h1" ->
         LET g == FindGroupById(db, Prop(RouteParams(pr.op, pr.target), "id")) IN
         IF g = Null THEN Out(db, Respond(pr, 404, "Group not found"))
         ELSE IF g.owner # pr.actor
           THEN Out(db, Respond(pr, 403, "Only the owner can delete the group"))
         ELSE IF ~MessageBound
           THEN Out(db, Respond(pr, 500, "Server error"))
         ELSE Out(db, [pr EXCEPT !.pc = "delRequests", !.g = g])
    [] pr.pc = "delRequests" ->
         Out([db EXCEPT !.joinRequests = <<>>], Goto(pr, "delGroup"))
    [] pr.pc = "delGroup" ->
         Out([db EXCEPT !.group = Null], Goto(pr, "pullUsers"))
    [] pr.pc = "pullUsers" ->
         Out([db EXCEPT !.joinedGroups = [u \in Users |-> 0]],
             Respond(pr, 200, "Group deleted successfully"))

\* new Message({...}) of either controller.
NewMessage(sender, content, encryptedContent, iv) ==
  [sender |-> sender, content |-> content, encryptedContent |-> encryptedContent,
   iv |-> iv]

\* messageController.sendMessage (POST /api/messages/:groupId); pr.iv is the
\* value crypto.randomBytes(16) returns inside encrypt.
SendMessageStep(db, pr) ==
  CASE pr.pc = "h1" ->
         LET g == FindGroupById(db, Prop(RouteParams(pr.op, pr.target), "groupId")) IN
         IF g = Null THEN Out(db, Respond(pr, 404, "Group not found"))
         ELSE IF ~Includes(g.members, pr.actor)
           THEN Out(db, Respond(pr, 403, "Not a member of this group"))
         ELSE Out(db, [pr EXCEPT !.pc = "insert", !.g = g])
    [] pr.pc = "insert" ->
         LET e == Encrypt(pr.content, pr.g.encryptionKey, pr.iv) IN
         LET message == NewMessage(pr.actor, <<>>, e.encryptedData, e.iv) IN
         Out([db EXCEPT !.messages = Append(@, message)],
             RespondBody(pr, 201, [EmptyBody EXCEPT !.data = <<message>>]))

\* content.trim() (a space is code unit 32)
RECURSIVE Trim(_)
Trim(content) ==
  IF content = <<>> THEN <<>>
  ELSE IF Head(content) = 32 THEN Trim(Tail(content))
  ELSE IF content[Len(content)] = 32 THEN Trim(SubSeq(content, 1, Len(content) - 1))
  ELSE content

\* !content || content.trim() === ''
IsBlank(content) == Trim(content) = <<>>

\* groupController.sendMessage (POST /api/groups/:id/messages)
GroupSendMessageStep(db, pr) ==
  CASE pr.pc = "h1" ->
         LET g == FindGroupById(db, Prop(RouteParams(pr.op, pr.target), "id")) IN
         IF IsBlank(pr.content)
           THEN Out(db, Respond(pr, 400, "Message content is required"))
         ELSE IF g = Null THEN Out(db, Respond(pr, 404, "Group not found"))
         ELSE IF ~Includes(g.members, pr.actor)
           THEN Out(db, Respond(pr, 403, "You are not a member of this group"))
         ELSE IF ~MessageBound
           THEN Out(db, Respond(pr, 500, "Server error"))
         ELSE Out(db, [pr EXCEPT !.pc = "insert", !.g = g])
    [] pr.pc = "insert" ->
         Out([db EXCEPT !.messages = Append(@, NewMessage(pr.actor, Trim(pr.content), <<>>, <<>>))],
             Respond(pr, 201, "Message sent successfully"))

\* ------------------------------------------------------ read handlers
\* .select('-a -b'): the document without the excluded paths.
Select(doc, excluded) == [p \in (DOMAIN doc) \ excluded |-> doc[p]]

\* x === y for includes (SameValueZero): two values of a primitive type with
\* the same content; an object is the same as itself only, and the objects a
\* query returns are never the value the request carries.
SameValueZero(x, y) == x.t = "string" /\ y.t = "string" /\ x.v = y.v

\* arr.includes(userId) on the plain array a .lean() query returns: its
\* elements are ObjectId objects (user objects once populated), userId is the
\* string of the token.
LeanIncludes(arr, userId) ==
  \E u \in ElemsOf(arr) :
    SameValueZero([t |-> "object", v |-> u], [t |-> "string", v |-> userId])

\* messages.reverse() / sort({createdAt: -1})
Reverse(seq) == [i \in 1..Len(seq) |-> seq[Len(seq) + 1 - i]]

\* discoverGroups (GET /discover, no search term)
DiscoverGroupsStep(db, pr) ==
  LET found == IF db.group # Null /\ db.group.type = "public"
                 THEN <<Select(db.group, {"members", "admins", "encryptionKey", "__v"})>>
                 ELSE <<>>
  IN  Out(db, RespondBody(pr, 200, [EmptyBody EXCEPT !.groups = found]))

\* getGroupDetails with the select of the query forgotten.
DetailsWithKey(db, pr) ==
  LET g == FindGroupById(db, Prop(RouteParams(pr.op, pr.target), "id")) IN
  IF g = Null THEN Out(db, Respond(pr, 404, "Group not found"))
  ELSE IF g.type = "private" THEN Out(db, Respond(pr, 500, "Server error"))
  ELSE Out(db, RespondBody(pr, 200, [EmptyBody EXCEPT !.groups = <<g>>]))

\* getGroupDetails: the group is read with .select('-encryptionKey -__v'),
\* owner and admins populated, .lean()
GetGroupDetailsStep(db, pr) ==
  LET g == FindGroupById(db, Prop(RouteParams(pr.op, pr.target), "id")) IN
  IF g = Null THEN Out(db, Respond(pr, 404, "Group not found"))
  ELSE IF /\ g.type = "private"
          /\ ~LeanIncludes(g.members, pr.actor)
          /\ ~LeanIncludes(g.admins, pr.actor)
    \* group.owner.equals(...): the populated owner of a lean document is a
    \* plain object without equals; the TypeError reaches the catch block
    THEN Out(db, Respond(pr, 500, "Server error"))
  ELSE
    LET isMember == LeanIncludes(g.members, pr.actor)
        isAdmin == LeanIncludes(g.admins, pr.actor)
        isOwner == g.owner = pr.actor
        \* JoinRequest.findOne({group, user}): any status
        i == FindRequest(db.joinRequests, pr.actor, Statuses)
    IN  Out(db, RespondBody(pr, 200,
          [groups |-> <<Select(g, {"encryptionKey", "__v"})>>,
           data |-> <<>>,
           userRole |-> IF isOwner THEN "owner" ELSE IF isAdmin THEN "admin"
                        ELSE IF isMember THEN "member" ELSE "none",
           joinRequestStatus |->
             IF ~isMember /\ g.type = "private" /\ i # 0
               THEN db.joinRequests[i].status ELSE "",
           canPost |-> isMember,
           canInvite |-> isOwner \/ isAdmin \/ Truthy(Prop(g, "allowMemberInvites")),
           canManage |-> isOwner \/ isAdmin]))

\* listMembers without the check of the caller's membership.
ListMembersOpen(db, pr) ==
  LET g == FindGroupById(db, Prop(RouteParams(pr.op, pr.target), "id")) IN
  IF g = Null THEN Out(db, Respond(pr, 404, "Group not found"))
  ELSE Out(db, RespondBody(pr, 200,
         [EmptyBody EXCEPT !.groups =
            <<[owner |-> g.owner, admins |-> g.admins, members |-> g.members]>>]))

\* listMembers: members, admins and owner populated, no .lean()
ListMembersStep(db, pr) ==
  LET g == FindGroupById(db, Prop(RouteParams(pr.op, pr.target), "id")) IN
  IF g = Null THEN Out(db, Respond(pr, 404, "Group not found"))
  ELSE IF ~Includes(g.members, pr.actor) /\ g.type = "private"
    THEN Out(db, Respond(pr, 403, "Not authorized to view members"))
  ELSE Out(db, RespondBody(pr, 200,
         [EmptyBody EXCEPT !.groups =
            <<[owner |-> g.owner, admins |-> g.admins, members |-> g.members]>>]))

\* groupController.getMessages (GET /api/groups/:id/messages)
GroupGetMessagesStep(db, pr) ==
  CASE pr.pc = "h1" ->
         LET g == FindGroupById(db, Prop(RouteParams(pr.op, pr.target), "id")) IN
         IF g = Null THEN Out(db, Respond(pr, 404, "Group not found"))
         ELSE IF ~Includes(g.members, pr.actor)
           THEN Out(db, Respond(pr, 403, "You are not a member of this group"))
         ELSE IF ~MessageBound
           THEN Out(db, Respond(pr, 500, "Server error"))
         ELSE Out(db, [pr EXCEPT !.pc = "find", !.g = g])
    [] pr.pc = "find" ->
         Out(db, RespondBody(pr, 200,
               [EmptyBody EXCEPT !.data =
                  [i \in 1..Len(db.messages) |-> db.messages[i].content]]))

\* messageController.getMessages without the check of the caller's membership.
GetMessagesOpen(db, pr) ==
  CASE pr.pc = "h1" ->
         LET g == FindGroupById(db, Prop(RouteParams(pr.op, pr.target), "groupId")) IN
         IF g = Null THEN Out(db, Respond(pr, 404, "Group not found"))
         ELSE Out(db, [pr EXCEPT !.pc = "find", !.g = g])
    [] pr.pc = "find" ->
         LET found == Reverse(db.messages)
             plain == [i \in 1..Len(found) |->
                         Decrypt(found[i].encryptedContent, pr.g.encryptionKey, found[i].iv)]
         IN  IF \E i \in 1..Len(found) : plain[i].thrown
               THEN Out(db, Respond(pr, 500, "Server error"))
               ELSE Out(db, RespondBody(pr, 200,
                      [EmptyBody EXCEPT !.data =
                         [i \in 1..Len(found) |-> plain[i].value]]))

\* messageController.getMessages (exported; messageRoutes mounts no GET route)
GetMessagesStep(db, pr) ==
  CASE pr.pc = "h1" ->
         LET g == FindGroupById(db, Prop(RouteParams(pr.op, pr.target), "groupId")) IN
         IF g = Null THEN Out(db, Respond(pr, 404, "Group not found"))
         ELSE IF ~Includes(g.members, pr.actor)
           THEN Out(db, Respond(pr, 403, "Not a member of this group"))
         ELSE Out(db, [pr EXCEPT !.pc = "find", !.g = g])
    [] pr.pc = "find" ->
         LET found == Reverse(db.messages)
             plain == [i \in 1..Len(found) |->
                         Decrypt(found[i].encryptedContent, pr.g.encryptionKey, found[i].iv)]
         IN  IF \E i \in 1..Len(found) : plain[i].thrown
               THEN Out(db, Respond(pr, 500, "Server error"))
               ELSE Out(db, RespondBody(pr, 200,
                      [EmptyBody EXCEPT !.data =
                         [i \in 1..Len(found) |-> plain[i].value]]))

\* -------------------------------------------------------- dispatcher
\* One step of a request: the route's entry, its middleware, or the next step
\* of its handler.
Step(db, pr) ==
  CASE pr.pc = "start" -> Enter(db, pr)
    [] pr.pc = "mw" -> CheckRole(db, pr)
    [] OTHER ->
       CASE pr.op = "create"       -> CreateGroupStep(db, pr)
         [] pr.op = "join"         -> JoinGroupStep(db, pr)
         [] pr.op = "requestJoin"  -> RequestJoinStep(db, pr)
         [] pr.op = "approve"      -> ApproveStep(db, pr)
         [] pr.op = "decline"      -> DeclineStep(db, pr)
         [] pr.op = "leave"        -> LeaveGroupStep(db, pr)
         [] pr.op = "transfer"     -> TransferOwnershipStep(db, pr)
         [] pr.op = "updateRole"   -> UpdateMemberRoleStep(db, pr)
         [] pr.op = "banish"       -> BanishUserStep(db, pr)
         [] pr.op = "settings"     -> UpdateSettingsStep(db, pr)
         [] pr.op = "addMember"    -> AddMemberStep(db, pr)
         [] pr.op = "removeMember" -> RemoveMemberStep(db, pr)
         [] pr.op = "delete"       -> DeleteGroupStep(db, pr)
         [] pr.op = "sendMessage"  -> SendMessageStep(db, pr)
         [] pr.op = "groupSendMessage" -> GroupSendMessageStep(db, pr)
         [] pr.op = "discover"     -> DiscoverGroupsStep(db, pr)
         [] pr.op = "details"      -> GetGroupDetailsStep(db, pr)
         [] pr.op = "listMembers"  -> ListMembersStep(db, pr)
         [] pr.op = "groupGetMessages" -> GroupGetMessagesStep(db, pr)
         [] pr.op = "getMessages"  -> GetMessagesStep(db, pr)

\* A request run from its entry to its response with nothing interleaved.
RECURSIVE Run(_, _)
Run(db, pr) ==
  IF pr.pc = "done" THEN Out(db, pr)
  ELSE LET o == Step(db, pr) IN Run(o.db, o.pr)

\* ------------------------------------------------------ specification
Init ==
  /\ group = Null
  /\ joinRequests = <<>>
  /\ joinedGroups = [u \in Users |-> 0]
  /\ asked = Undefined
  /\ procs = [p \in Procs |-> IdleProc]
  /\ failures = 0
  /\ messages = <<>>
  /\ cipher = IdleCipher

\* The requests the routes accept: the authenticated caller is a stored user,
\* the ids in the path and the body are any id.
CreateReqs ==
  {[NewProc("create", a, Undefined) EXCEPT !.gtype = t, !.maxMembers = m, !.key = k] :
     a \in Users, t \in GroupTypes, m \in {Undefined, MaxCap}, k \in Keys}

SelfReqs(op) == {NewProc(op, a, Undefined) : a \in Users}

TargetReqs(op) == {NewProc(op, a, t) : a \in Users, t \in UserIds}

RoleReqs ==
  {[NewProc("updateRole", a, t) EXCEPT !.role = r] :
     a \in Users, t \in UserIds, r \in RoleTokens}

\* crypto.randomBytes(16) of encrypt, as one fixed draw in the group requests.
ZeroIv == [i \in 1..BlockSize |-> 0]

\* req.body.content of the message requests: absent text, and "hi".
Contents == {<<>>, <<104, 105>>}

SendReqs(op) ==
  {[NewProc(op, a, Undefined) EXCEPT !.content = c, !.iv = ZeroIv] :
     a \in Users, c \in Contents}

\* The outcome of a whole request served alone in the current state: the
\* database it leaves and the response it sends.
Serve(pr) == Run(DB, pr)

\* The database a request leaves becomes the current one (the JoinRequest
\* collection is bounded by MaxRequests records).
Commit(d) ==
  /\ Len(d.joinRequests) <= MaxRequests
  /\ Len(d.messages) <= MaxMessages
  /\ SetDB(d)

CreateGroup ==
  \E pr \in CreateReqs :
    /\ Commit(Serve(pr).db)
    /\ UNCHANGED <<procs, failures, cipher>>

DeleteGroup ==
  \E pr \in SelfReqs("delete") :
    /\ Commit(Serve(pr).db)
    /\ UNCHANGED <<procs, failures, cipher>>

JoinGroup ==
  \E pr \in SelfReqs("join") :
    /\ Commit(Serve(pr).db)
    /\ UNCHANGED <<procs, failures, cipher>>

LeaveGroup ==
  \E pr \in SelfReqs("leave") :
    /\ Commit(Serve(pr).db)
    /\ UNCHANGED <<procs, failures, cipher>>

RequestJoinPrivateGroup ==
  \E pr \in SelfReqs("requestJoin") :
    /\ Commit(Serve(pr).db)
    /\ UNCHANGED <<procs, failures, cipher>>

ApproveJoinRequest ==
  \E pr \in TargetReqs("approve") :
    /\ Commit(Serve(pr).db)
    /\ UNCHANGED <<procs, failures, cipher>>

DeclineJoinRequest ==
  \E pr \in TargetReqs("decline") :
    /\ Commit(Serve(pr).db)
    /\ UNCHANGED <<procs, failures, cipher>>

BanishUser ==
  \E pr \in TargetReqs("banish") :
    /\ Commit(Serve(pr).db)
    /\ UNCHANGED <<procs, failures, cipher>>

TransferOwnership ==
  \E pr \in TargetReqs("transfer") :
    /\ Commit(Serve(pr).db)
    /\ UNCHANGED <<procs, failures, cipher>>

UpdateMemberRole ==
  \E pr \in RoleReqs :
    /\ Commit(Serve(pr).db)
    /\ UNCHANGED <<procs, failures, cipher>>

UpdateSettings ==
  \E pr \in SelfReqs("settings") :
    /\ Commit(Serve(pr).db)
    /\ UNCHANGED <<procs, failures, cipher>>

AddMemberToGroup ==
  \E pr \in TargetReqs("addMember") :
    /\ Commit(Serve(pr).db)
    /\ UNCHANGED <<procs, failures, cipher>>

RemoveMember ==
  \E pr \in TargetReqs("removeMember") :
    /\ Commit(Serve(pr).db)
    /\ UNCHANGED <<procs, failures, cipher>>

SendMessage ==
  \E pr \in SendReqs("sendMessage") :
    /\ Commit(Serve(pr).db)
    /\ UNCHANGED <<procs, failures, cipher>>

GroupSendMessage ==
  \E pr \in SendReqs("groupSendMessage") :
    /\ Commit(Serve(pr).db)
    /\ UNCHANGED <<procs, failures, cipher>>

\* The operations on the group, its join requests and the users' index.
GroupOps ==
  \/ CreateGroup
  \/ DeleteGroup
  \/ JoinGroup
  \/ LeaveGroup
  \/ RequestJoinPrivateGroup
  \/ ApproveJoinRequest
  \/ DeclineJoinRequest
  \/ BanishUser
  \/ TransferOwnership
  \/ UpdateMemberRole
  \/ UpdateSettings
  \/ AddMemberToGroup
  \/ RemoveMember

DiscoverGroups ==
  \E pr \in SelfReqs("discover") :
    /\ Commit(Serve(pr).db)
    /\ UNCHANGED <<procs, failures, cipher>>

GetGroupDetails ==
  \E pr \in SelfReqs("details") :
    /\ Commit(Serve(pr).db)
    /\ UNCHANGED <<procs, failures, cipher>>

ListMembers ==
  \E pr \in SelfReqs("listMembers") :
    /\ Commit(Serve(pr).db)
    /\ UNCHANGED <<procs, failures, cipher>>

GetMessages ==
  \E pr \in SelfReqs("groupGetMessages") :
    /\ Commit(Serve(pr).db)
    /\ UNCHANGED <<procs, failures, cipher>>

Next ==
  \/ GroupOps
  \/ SendMessage
  \/ GroupSendMessage
  \/ DiscoverGroups
  \/ GetGroupDetails
  \/ ListMembers
  \/ GetMessages

Spec == Init /\ [][Next]_vars

\* ------------------------------------------- concurrent specification
\* Requests in flight at once.  Until they arrive, requests are served one at
\* a time (which builds the group, its members and its join requests); then
\* every slot carries one request and the steps of the requests interleave.
\* A request that has arrived and not yet taken a step has done nothing, so
\* the requests arrive together, and in one order of the slots.
AllIdle == \A p \in Procs : procs[p].pc = "idle"

AllArrived == \A p \in Procs : procs[p].pc # "idle"

InFlight(p) == procs[p].pc \notin {"idle", "done"}

OpRank(op) ==
  CASE op = "join" -> 1
    [] op = "requestJoin" -> 2
    [] op = "approve" -> 3
    [] op = "decline" -> 4
    [] OTHER -> 5

\* An order of the requests, to fill the slots in one order only.
Rank(pr) ==
  (OpRank(pr.op) * (NumUsers + 2) + pr.actor) * (NumUsers + 2)
    + (IF pr.target = Undefined THEN 0 ELSE pr.target)

Settle ==
  /\ AllIdle
  /\ \/ CreateGroup
     \/ JoinGroup
     \/ LeaveGroup
     \/ RequestJoinPrivateGroup
     \/ ApproveJoinRequest
     \/ DeclineJoinRequest

\* A request arrives in slot p.
Arrives(p, pr) ==
  /\ group # Null
  /\ procs[p].pc = "idle"
  /\ \A q \in Procs : q < p => procs[q].pc = "start" /\ Rank(procs[q]) <= Rank(pr)
  /\ procs' = [procs EXCEPT ![p] = pr]
  /\ UNCHANGED <<group, joinRequests, joinedGroups, asked, failures, messages, cipher>>

StartJoin(p) ==
  \E pr \in SelfReqs("join") :
    /\ pr.op = "join"
    /\ Arrives(p, pr)

StartRequestJoin(p) ==
  \E pr \in SelfReqs("requestJoin") :
    /\ pr.op = "requestJoin"
    /\ Arrives(p, pr)

StartApprove(p) ==
  \E pr \in TargetReqs("approve") :
    /\ pr.target \in Users
    /\ Arrives(p, pr)

StartDecline(p) ==
  \E pr \in TargetReqs("decline") :
    /\ pr.target \in Users
    /\ Arrives(p, pr)

\* The next step of the request in slot p.
StepProc(p) ==
  /\ InFlight(p)
  /\ \E o \in {Step(DB, procs[p])} :
       /\ Commit(o.db)
       /\ procs' = [procs EXCEPT ![p] = o.pr]
  /\ UNCHANGED <<failures, cipher>>

NextConc ==
  \/ Settle
  \/ \E p \in Procs : StartJoin(p)
  \/ \E p \in Procs : StartRequestJoin(p)
  \/ \E p \in Procs : StartApprove(p)
  \/ \E p \in Procs : StartDecline(p)
  \/ \E p \in Procs : AllArrived /\ StepProc(p)

SpecConc == Init /\ [][NextConc]_vars

\* ---------------------------------------------- failing specification
\* One request at a time, step by step, where the database call the request
\* awaits may reject: the catch block of the handler (or of the middleware)
\* answers 500.  Requests served whole come before and between.
AllReqs ==
  CreateReqs \cup RoleReqs
    \cup UNION {SelfReqs(op) : op \in {"delete", "join", "leave", "requestJoin", "settings"}}
    \cup UNION {TargetReqs(op) :
                  op \in {"approve", "decline", "banish", "transfer", "addMember", "removeMember"}}

SettleAll ==
  /\ AllIdle
  /\ GroupOps

StartAlone ==
  /\ AllIdle
  /\ \E pr \in AllReqs : procs' = [procs EXCEPT ![1] = pr]
  /\ UNCHANGED <<group, joinRequests, joinedGroups, asked, failures, messages, cipher>>

Throw(p) ==
  /\ InFlight(p)
  /\ procs[p].pc # "start"
  /\ failures < MaxFailures
  /\ procs' = [procs EXCEPT ![p] = Respond(@, 500, "Server error")]
  /\ failures' = failures + 1
  /\ UNCHANGED <<group, joinRequests, joinedGroups, asked, messages, cipher>>

\* The response has been sent: the slot is free again.
Recycle ==
  /\ procs[1].pc = "done"
  /\ procs' = [procs EXCEPT ![1] = IdleProc]
  /\ UNCHANGED <<group, joinRequests, joinedGroups, asked, failures, messages, cipher>>

NextFail ==
  \/ SettleAll
  \/ StartAlone
  \/ StepProc(1)
  \/ Throw(1)
  \/ Recycle

SpecFail == Init /\ [][NextFail]_vars

\* ------------------------------------------------- racing specification
\* A transfer of ownership and, arriving with it, a request that takes the
\* named new owner out of the group (the new owner's leave, a banish or a
\* removeMember of the new owner); the steps of the two interleave.
SettleRace ==
  /\ AllIdle
  /\ \/ CreateGroup
     \/ JoinGroup
     \/ UpdateMemberRole

StartTransfer ==
  \E pr \in TargetReqs("transfer") :
    /\ group # Null
    /\ pr.target \in Users
    /\ AllIdle
    /\ procs' = [procs EXCEPT ![1] = pr]
    /\ UNCHANGED <<group, joinRequests, joinedGroups, asked, failures, messages, cipher>>

\* The second request arrives in slot 2 once the transfer is in slot 1.
ArrivesWithTransfer(pr) ==
  /\ procs[1].pc = "start"
  /\ procs[2].pc = "idle"
  /\ procs' = [procs EXCEPT ![2] = pr]
  /\ UNCHANGED <<group, joinRequests, joinedGroups, asked, failures, messages, cipher>>

StartLeaveOfNewOwner ==
  \E pr \in SelfReqs("leave") :
    /\ pr.actor = procs[1].target
    /\ ArrivesWithTransfer(pr)

StartBanishOfNewOwner ==
  \E pr \in TargetReqs("banish") :
    /\ pr.target = procs[1].target
    /\ ArrivesWithTransfer(pr)

StartRemoveOfNewOwner ==
  \E pr \in TargetReqs("removeMember") :
    /\ pr.target = procs[1].target
    /\ ArrivesWithTransfer(pr)

NextRace ==
  \/ SettleRace
  \/ StartTransfer
  \/ StartLeaveOfNewOwner
  \/ StartBanishOfNewOwner
  \/ StartRemoveOfNewOwner
  \/ \E p \in 1..2 : procs[1].pc # "idle" /\ procs[2].pc # "idle" /\ StepProc(p)

SpecRace == Init /\ [][NextRace]_vars

\* -------------------------------------------------- gated specification
\* A transfer of ownership and, arriving with it, a request of the same caller
\* on a route gated on the owner role (approve, decline, banish); the steps
\* of the two interleave.
SettleGate ==
  /\ AllIdle
  /\ \/ CreateGroup
     \/ JoinGroup
     \/ RequestJoinPrivateGroup

StartGatedApprove ==
  \E pr \in TargetReqs("approve") :
    /\ pr.actor = procs[1].actor
    /\ pr.target \in Users
    /\ ArrivesWithTransfer(pr)

StartGatedDecline ==
  \E pr \in TargetReqs("decline") :
    /\ pr.actor = procs[1].actor
    /\ pr.target \in Users
    /\ ArrivesWithTransfer(pr)

StartGatedBanish ==
  \E pr \in TargetReqs("banish") :
    /\ pr.actor = procs[1].actor
    /\ pr.target \in Users
    /\ ArrivesWithTransfer(pr)

NextGate ==
  \/ SettleGate
  \/ StartTransfer
  \/ StartGatedApprove
  \/ StartGatedDecline
  \/ StartGatedBanish
  \/ \E p \in 1..2 : procs[1].pc # "idle" /\ procs[2].pc # "idle" /\ StepProc(p)

SpecGate == Init /\ [][NextGate]_vars

\* ----------------------------------------------- messaging specification
\* A message being sent and, arriving with it, a request that takes the
\* sender out of the group (the sender's leave, a banish or a removeMember of
\* the sender); the steps of the two interleave.
SettleMsg ==
  /\ AllIdle
  /\ \/ CreateGroup
     \/ JoinGroup

StartSend ==
  \E pr \in SendReqs("sendMessage") \cup SendReqs("groupSendMessage") :
    /\ group # Null
    /\ AllIdle
    /\ procs' = [procs EXCEPT ![1] = pr]
    /\ UNCHANGED <<group, joinRequests, joinedGroups, asked, failures, messages, cipher>>

StartLeaveOfSender ==
  \E pr \in SelfReqs("leave") :
    /\ pr.actor = procs[1].actor
    /\ ArrivesWithTransfer(pr)

StartBanishOfSender ==
  \E pr \in TargetReqs("banish") :
    /\ pr.target = procs[1].actor
    /\ ArrivesWithTransfer(pr)

StartRemoveOfSender ==
  \E pr \in TargetReqs("removeMember") :
    /\ pr.target = procs[1].actor
    /\ ArrivesWithTransfer(pr)

\* Both responses have been sent: the slots are free again.
RecycleBoth ==
  /\ \A p \in Procs : procs[p].pc = "done"
  /\ procs' = [p \in Procs |-> IdleProc]
  /\ UNCHANGED <<group, joinRequests, joinedGroups, asked, failures, messages, cipher>>

NextMsg ==
  \/ SettleMsg
  \/ StartSend
  \/ StartLeaveOfSender
  \/ StartBanishOfSender
  \/ StartRemoveOfSender
  \/ \E p \in 1..2 : procs[1].pc # "idle" /\ procs[2].pc # "idle" /\ StepProc(p)
  \/ RecycleBoth

SpecMsg == Init /\ [][NextMsg]_vars

\* ---------------------------------------------- encryption specification
\* The encryption service on its own: a text and a key are given, encrypt is
\* called, the stored pair may be read back with another key or with an iv
\* altered in one byte, and decrypt is called.
\* UTF-16 code units of the texts: "a", "e" with acute accent, and the two
\* halves of a surrogate pair (an emoji when they follow each other).
CodeUnits == {97, 233, 55357, 56832}

Texts == UNION {[1..n -> CodeUnits] : n \in 1..MaxTextLen}

\* Values crypto.randomBytes(16) may return.
IVs == {ZeroIv, [i \in 1..BlockSize |-> i]}

\* The bytes of the iv that get altered: the first and the last.
IvPositions == {1, BlockSize}

\* The iv with the lowest bit of byte i flipped.
AlterByte(iv, i) ==
  [iv EXCEPT ![i] = IF @ % 2 = 0 THEN @ + 1 ELSE @ - 1]

InitCrypto ==
  /\ group = Null
  /\ joinRequests = <<>>
  /\ joinedGroups = [u \in Users |-> 0]
  /\ asked = Undefined
  /\ procs = [p \in Procs |-> IdleProc]
  /\ failures = 0
  /\ messages = <<>>
  /\ \E text \in Texts, key \in CryptoKeys :
       cipher = [IdleCipher EXCEPT !.phase = "plain", !.text = text, !.key = key]

EncryptCall ==
  /\ cipher.phase = "plain"
  /\ \E iv \in IVs :
       \E e \in {Encrypt(cipher.text, cipher.key, iv)} :
         cipher' = [cipher EXCEPT !.phase = "encrypted",
                                  !.encryptedData = e.encryptedData, !.iv = e.iv,
                                  !.useKey = cipher.key, !.useIv = e.iv]
  /\ UNCHANGED <<group, joinRequests, joinedGroups, asked, procs, failures, messages>>

TamperKey ==
  /\ cipher.phase = "encrypted"
  /\ cipher.useKey = cipher.key
  /\ \E k \in CryptoKeys \ {cipher.key} : cipher' = [cipher EXCEPT !.useKey = k]
  /\ UNCHANGED <<group, joinRequests, joinedGroups, asked, procs, failures, messages>>

TamperIv ==
  /\ cipher.phase = "encrypted"
  /\ cipher.useIv = cipher.iv
  /\ \E i \in IvPositions :
       cipher' = [cipher EXCEPT !.useIv = ToHex(AlterByte(FromHex(cipher.iv), i))]
  /\ UNCHANGED <<group, joinRequests, joinedGroups, asked, procs, failures, messages>>

DecryptCall ==
  /\ cipher.phase = "encrypted"
  /\ \E d \in {Decrypt(cipher.encryptedData, cipher.useKey, cipher.useIv)} :
       cipher' = [cipher EXCEPT !.phase = "decrypted",
                                !.thrown = d.thrown, !.result = d.value]
  /\ UNCHANGED <<group, joinRequests, joinedGroups, asked, procs, failures, messages>>

NextCrypto ==
  \/ EncryptCall
  \/ TamperKey
  \/ TamperIv
  \/ DecryptCall

SpecCrypto == InitCrypto /\ [][NextCrypto]_vars

\* ------------------------------------------------------------ claims
Members == IF group = Null THEN {} ELSE ElemsOf(group.members)

Admins == IF group = Null THEN {} ELSE ElemsOf(group.admins)

\* Whether the database is left as it was by a request's outcome.
Untouched(o) == o.db = DB

\* C1: after any sequence of completed group operations, the owner of an
\* existing group is a member and an admin, and every admin is a member.
C1_OwnerAndAdminsAreMembers ==
  group # Null =>
    /\ group.owner \in Members
    /\ group.owner \in Admins
    /\ Admins \subseteq Members

\* C1 witness: ownership has been transferred to a second user while the
\* first owner stays an admin and a third user is a plain member.
C1_Witness ==
  /\ group # Null
  /\ Cardinality(Admins) >= 2
  /\ Cardinality(Members \ Admins) >= 1
  /\ \E pr \in TargetReqs("transfer") :
       pr.actor = group.owner /\ pr.target \in Admins \ {group.owner}
         /\ Serve(pr).pr.status = 200

\* C2: for a group created with maxMembers set, members never outnumber
\* maxMembers.
C2_CapacityRespected ==
  (group # Null /\ asked # Undefined) => Length(group.members) <= asked

\* C3: of two joins by different users that both read the public group with
\* one slot left, at most one succeeds.
C3_LastSlotRace ==
  \A p, q \in Procs :
    (/\ p # q
     /\ procs[p].op = "join" /\ procs[q].op = "join"
     /\ procs[p].pc = "done" /\ procs[q].pc = "done"
     /\ procs[p].actor # procs[q].actor
     /\ asked # Undefined
     /\ procs[p].g # Null /\ procs[q].g # Null
     /\ procs[p].g.type = "public"
     /\ Length(procs[p].g.members) = asked - 1
     /\ Length(procs[q].g.members) = asked - 1)
    => ~(procs[p].status = 200 /\ procs[q].status = 200)

\* C4: at every moment, concurrent submissions through either endpoint
\* included, a (group, user) pair has at most one pending JoinRequest.
C4_OnePendingPerPair ==
  \A i, j \in 1..Len(joinRequests) :
    (i # j /\ joinRequests[i].user = joinRequests[j].user)
      => ~(joinRequests[i].status = "pending" /\ joinRequests[j].status = "pending")

\* C4 witness: two submissions of one user raced past their lookups; one was
\* stored, the other was refused by the unique index.
C4_Witness ==
  \E p, q \in Procs :
    /\ p # q
    /\ procs[p].op \in {"join", "requestJoin"} /\ procs[q].op \in {"join", "requestJoin"}
    /\ procs[p].actor = procs[q].actor
    /\ procs[p].pc = "done" /\ procs[p].status = 200
    /\ procs[q].pc = "done" /\ procs[q].status = 500
    /\ \E i \in 1..Len(joinRequests) :
         joinRequests[i].user = procs[p].actor /\ joinRequests[i].status = "pending"

\* C5: a JoinRequest that is approved or rejected never changes status again.
C5_TerminalIsFinal ==
  [][\A i \in 1..Len(joinRequests) :
       joinRequests[i].status # "pending" =>
         /\ i <= Len(joinRequests')
         /\ joinRequests'[i].status = joinRequests[i].status]_vars

\* C6: when an approve has returned, failed or not, the request it found is
\* not pending while that approve added the user to members, and is not
\* approved while the user is not a member.
C6_ApproveIsOneUnit ==
  \A p \in Procs :
    (procs[p].op = "approve" /\ procs[p].pc = "done" /\ procs[p].req # 0) =>
      LET r == joinRequests[procs[p].req]
          t == procs[p].target
      IN  /\ ~(r.status = "pending" /\ procs[p].ops # {} /\ t \in Members)
          /\ ~(r.status = "approved" /\ t \notin Members)

\* C7: an approve by the owner of a pending request of user D answers 200,
\* makes D a member, the request approved and the group part of D's
\* joinedGroups; the same approve again answers 404 and changes nothing.
C7_ApproveThenNotFound ==
  \A pr \in TargetReqs("approve") :
    (/\ group # Null
     /\ pr.actor = group.owner
     /\ FindRequest(joinRequests, pr.target, {"pending"}) # 0)
    => LET i == FindRequest(joinRequests, pr.target, {"pending"})
           o == Serve(pr)
           again == Run(o.db, pr)
       IN  /\ o.pr.status = 200
           /\ Includes(o.db.group.members, pr.target)
           /\ o.db.joinRequests[i].status = "approved"
           /\ o.db.joinedGroups[pr.target] >= 1
           /\ again.pr.status = 404
           /\ again.db = o.db

\* C7 witness: D's request is approved, D is a member with the group in its
\* joinedGroups, no request of D is pending, and an approve for D answers 404.
C7_Witness ==
  /\ group # Null
  /\ \E i \in 1..Len(joinRequests) :
       LET d == joinRequests[i].user IN
       /\ joinRequests[i].status = "approved"
       /\ d \in Members
       /\ joinedGroups[d] >= 1
       /\ FindRequest(joinRequests, d, {"pending"}) = 0
       /\ Serve(NewProc("approve", group.owner, d)).pr.status = 404

\* C8: an approve or a decline by anyone but the owner of the group (an admin,
\* a plain member, a non-member) answers 403 and changes nothing.
C8_OnlyOwnerDecides ==
  \A pr \in TargetReqs("approve") \cup TargetReqs("decline") :
    (group # Null /\ pr.actor # group.owner) =>
      LET o == Serve(pr) IN o.pr.status = 403 /\ Untouched(o)

\* C8 witness: an admin who is not the owner is refused the approve of a
\* pending request.
C8_Witness ==
  /\ group # Null
  /\ \E a \in Admins \ {group.owner}, i \in 1..Len(joinRequests) :
       /\ joinRequests[i].status = "pending"
       /\ Serve(NewProc("approve", a, joinRequests[i].user)).pr.status = 403

\* C9: request-join answers 404 without a group, 400 on a public group, for a
\* member and for a user with a pending request, each time changing nothing;
\* otherwise it answers 200 and adds one pending JoinRequest of the user.
C9_SubmitContract ==
  \A pr \in SelfReqs("requestJoin") :
    LET o == Serve(pr)
        u == pr.actor
    IN  IF group = Null THEN o.pr.status = 404 /\ Untouched(o)
        ELSE IF \/ group.type = "public"
                \/ u \in Members
                \/ FindRequest(joinRequests, u, {"pending"}) # 0
          THEN o.pr.status = 400 /\ Untouched(o)
        ELSE /\ o.pr.status = 200
             /\ o.db = [DB EXCEPT !.joinRequests = Append(@, NewRequest(u))]

\* C9 witness: a request of a user is pending on a private group next to an
\* earlier settled one, and a further request-join of that user answers 400.
C9_Witness ==
  /\ group # Null
  /\ group.type = "private"
  /\ \E i \in 1..Len(joinRequests) :
       /\ joinRequests[i].status = "pending"
       /\ Serve(NewProc("requestJoin", joinRequests[i].user, Undefined)).pr.status = 400
  /\ \E j \in 1..Len(joinRequests) : joinRequests[j].status # "pending"

\* C10: once a request of a user who is not a member is approved or rejected
\* and none is pending, a submission through either endpoint answers 200 and
\* adds a pending record, the earlier records staying as they are.
C10_FreshSubmissionAfterTerminal ==
  \A pr \in SelfReqs("requestJoin") \cup SelfReqs("join") :
    (/\ group # Null
     /\ group.type = "private"
     /\ pr.actor \notin Members
     /\ FindRequest(joinRequests, pr.actor, {"approved", "rejected"}) # 0
     /\ FindRequest(joinRequests, pr.actor, {"pending"}) = 0)
    => LET o == Serve(pr) IN
       /\ o.pr.status = 200
       /\ o.db.joinRequests = Append(joinRequests, NewRequest(pr.actor))

\* C11: a join adds the caller to members, and the group to the caller's
\* joinedGroups, only on a public group; on a private group it leaves members
\* as they are; a join by a member answers 400 and changes nothing.
C11_JoinAddsOnlyOnPublic ==
  \A pr \in SelfReqs("join") :
    group # Null =>
      LET o == Serve(pr)
          u == pr.actor
      IN  /\ u \in Members => (o.pr.status = 400 /\ Untouched(o))
          /\ group.type = "private" => o.db.group = group
          /\ (u \notin Members /\ Includes(o.db.group.members, u)) =>
               /\ group.type = "public"
               /\ o.pr.status = 200
               /\ o.db.joinedGroups[u] = joinedGroups[u] + 1
          /\ (u \notin Members /\ group.type = "public" /\ asked = Undefined) =>
               Includes(o.db.group.members, u)

\* C11 witness: a user joined a public group (it is a member with the group
\* in its joinedGroups), a further join of that user answers 400, and a join
\* of another user would add that one.
C11_Witness ==
  /\ group # Null
  /\ group.type = "public"
  /\ \E u \in Members \ {group.owner} :
       /\ joinedGroups[u] >= 1
       /\ Serve(NewProc("join", u, Undefined)).pr.status = 400
  /\ \E v \in Users \ Members :
       Includes(Serve(NewProc("join", v, Undefined)).db.group.members, v)

\* C12: a leave by the owner and a leave by a non-member answer 400 and change
\* nothing; a leave by any other member answers 200 and removes the user from
\* members and admins and the group from the user's joinedGroups.
C12_LeaveContract ==
  \A pr \in SelfReqs("leave") :
    group # Null =>
      LET o == Serve(pr)
          u == pr.actor
      IN  IF u = group.owner \/ u \notin Members
            THEN o.pr.status = 400 /\ Untouched(o)
            ELSE /\ o.pr.status = 200
                 /\ o.db.group = [group EXCEPT !.members = Pull(@, u),
                                               !.admins = Pull(@, u)]
                 /\ o.db.joinedGroups = [joinedGroups EXCEPT ![u] = 0]
                 /\ o.db.joinRequests = joinRequests

\* C12 witness: an admin who is not the owner is about to leave, next to the
\* owner and a user who is not a member, whose leaves answer 400.
C12_Witness ==
  /\ group # Null
  /\ \E u \in Admins \ {group.owner} :
       /\ joinedGroups[u] >= 1
       /\ Serve(NewProc("leave", u, Undefined)).pr.status = 200
  /\ \E v \in Users \ Members :
       Serve(NewProc("leave", v, Undefined)).pr.status = 400
  /\ Serve(NewProc("leave", group.owner, Undefined)).pr.status = 400

\* C13: a transfer answers 200 only when the caller is the owner and the new
\* owner is a member; when the owner names a new owner who is not a member it
\* answers 404 and the group is as it was.
C13_TransferContract ==
  \A pr \in TargetReqs("transfer") :
    group # Null =>
      LET o == Serve(pr) IN
      /\ o.pr.status = 200 => (pr.actor = group.owner /\ pr.target \in Members)
      /\ (pr.actor = group.owner /\ pr.target \notin Members) =>
           (o.pr.status = 404 /\ Untouched(o))

\* C14 as stated: after a transfer that answered 200 the previous owner is
\* still in members and admins, the new owner is in both, and a leave by the
\* previous owner answers 200.
C14_PreviousOwnerMayLeave ==
  \A pr \in TargetReqs("transfer") :
    group # Null =>
      LET o == Serve(pr)
          prev == group.owner
      IN  o.pr.status = 200 =>
            /\ Includes(o.db.group.members, prev) /\ Includes(o.db.group.admins, prev)
            /\ o.db.group.owner = pr.target
            /\ Includes(o.db.group.members, pr.target)
            /\ Includes(o.db.group.admins, pr.target)
            /\ Run(o.db, NewProc("leave", prev, Undefined)).pr.status = 200

\* C14 amended: after a transfer that answered 200 the previous owner is still
\* in members and admins and the new owner is in both; when the new owner is
\* another user than the previous one, a leave by the previous owner answers
\* 200 and takes it out of members and admins.
C14_PreviousOwnerMayLeaveUnlessSelf ==
  \A pr \in TargetReqs("transfer") :
    group # Null =>
      LET o == Serve(pr)
          prev == group.owner
          left == Run(o.db, NewProc("leave", prev, Undefined))
      IN  o.pr.status = 200 =>
            /\ Includes(o.db.group.members, prev) /\ Includes(o.db.group.admins, prev)
            /\ o.db.group.owner = pr.target
            /\ Includes(o.db.group.members, pr.target)
            /\ Includes(o.db.group.admins, pr.target)
            /\ pr.target # prev =>
                 /\ left.pr.status = 200
                 /\ ~Includes(left.db.group.members, prev)
                 /\ ~Includes(left.db.group.admins, prev)
            /\ pr.target = prev => left.pr.status = 400

\* C14 witness: ownership went to another user (the previous owner is an
\* admin who can leave), and the owner can hand it on to a plain member.
C14_Witness ==
  /\ group # Null
  /\ \E prev \in Admins \ {group.owner} :
       Serve(NewProc("leave", prev, Undefined)).pr.status = 200
  /\ \E t \in Members \ Admins :
       Serve(NewProc("transfer", group.owner, t)).pr.status = 200

\* C15: when a transfer and a concurrent leave, banish or removeMember of the
\* named new owner have both returned, the owner of the group is in members
\* and in admins.
C15_OwnerStaysMemberUnderRace ==
  (/\ group # Null
   /\ procs[1].op = "transfer" /\ procs[1].pc = "done"
   /\ procs[2].op \in {"leave", "banish", "removeMember"} /\ procs[2].pc = "done")
  => (group.owner \in Members /\ group.owner \in Admins)

\* C16: a removeMember by the owner or an admin whose target is a member other
\* than the owner answers 200 and removes the target from members, admins and
\* the group from the target's joinedGroups; when the target is the owner or
\* is not a member it answers 400 and changes nothing.
C16_RemoveMemberContract ==
  \A pr \in TargetReqs("removeMember") :
    (group # Null /\ (pr.actor = group.owner \/ pr.actor \in Admins)) =>
      LET o == Serve(pr)
          t == pr.target
      IN  IF t = group.owner \/ t \notin Members
            THEN o.pr.status = 400 /\ Untouched(o)
            ELSE /\ o.pr.status = 200
                 /\ ~Includes(o.db.group.members, t)
                 /\ ~Includes(o.db.group.admins, t)
                 /\ o.db.joinedGroups[t] = 0

\* C17: an addMember by the owner or an admin for a stored user who is not a
\* member, the group not being full, answers 200 and adds the user to members
\* and the group to the user's joinedGroups; when the user is a member or the
\* group is full it answers 400 and changes nothing.
C17_AddMemberContract ==
  \A pr \in TargetReqs("addMember") :
    (/\ group # Null
     /\ pr.actor = group.owner \/ pr.actor \in Admins
     /\ pr.target \in Users) =>
      LET o == Serve(pr)
          t == pr.target
          full == asked # Undefined /\ Length(group.members) >= asked
      IN  IF t \in Members \/ full
            THEN o.pr.status = 400 /\ Untouched(o)
            ELSE /\ o.pr.status = 200
                 /\ Includes(o.db.group.members, t)
                 /\ o.db.joinedGroups[t] = joinedGroups[t] + 1

\* C18: a banish whose target is the owner answers 400 whoever calls it, and a
\* banish by anyone but the owner leaves members and admins as they are.
C18_BanishContract ==
  \A pr \in TargetReqs("banish") :
    group # Null =>
      LET o == Serve(pr) IN
      /\ pr.target = group.owner => (o.pr.status = 400 /\ Untouched(o))
      /\ pr.actor # group.owner => o.db.group = group

\* C19: the owner's updateRole of a member u to admin, served twice, leaves
\* the same admins and members as served once, with u in admins exactly once.
C19_PromoteIsIdempotent ==
  \A pr \in RoleReqs :
    (/\ group # Null
     /\ pr.actor = group.owner
     /\ pr.role = "admin"
     /\ pr.target \in Members) =>
      LET once == Serve(pr)
          twice == Run(once.db, pr)
      IN  /\ once.pr.status = 200
          /\ twice.pr.status = 200
          /\ twice.db.group.admins = once.db.group.admins
          /\ twice.db.group.members = once.db.group.members
          /\ once.db.group.members = group.members
          /\ twice.db.group.admins[pr.target] = 1

\* C19 witness: a member other than the owner has been made admin (it is in
\* admins once) and the owner's promotion of it again answers 200, next to a
\* plain member the owner can promote.
C19_Witness ==
  /\ group # Null
  /\ \E u \in Admins \ {group.owner} :
       /\ group.admins[u] = 1
       /\ Serve([NewProc("updateRole", group.owner, u) EXCEPT !.role = "admin"]).pr.status = 200
  /\ Members \ Admins # {}

\* C20: an updateRole by the owner or an admin answers 400 when the target is
\* the owner, whatever the role asked, when the role is neither admin nor
\* member, and when the target is a stored user who is not a member; every
\* such answer leaves admins and members as they are.
C20_UpdateRoleFailures ==
  \A pr \in RoleReqs :
    (/\ group # Null
     /\ pr.actor = group.owner \/ pr.actor \in Admins
     /\ pr.target \in Users
     /\ \/ pr.target = group.owner
        \/ pr.role \notin {"admin", "member"}
        \/ pr.target \notin Members) =>
      LET o == Serve(pr) IN o.pr.status = 400 /\ o.db.group = group

\* C21: no request of an admin who is not the owner takes the owner out of
\* members or admins, changes the owner, or deletes the group.
C21_AdminCannotUnseatOwner ==
  \A pr \in AllReqs :
    (group # Null /\ pr.actor \in Admins \ {group.owner}) =>
      LET o == Serve(pr) IN
      /\ o.db.group # Null
      /\ o.db.group.owner = group.owner
      /\ Includes(o.db.group.members, group.owner)
      /\ Includes(o.db.group.admins, group.owner)

\* C21 witness: an admin who is not the owner is refused the demotion of the
\* owner, the transfer of ownership and the deletion of the group.
C21_Witness ==
  /\ group # Null
  /\ \E a \in Admins \ {group.owner} :
       /\ Serve([NewProc("updateRole", a, group.owner) EXCEPT !.role = "member"]).pr.status = 400
       /\ Serve(NewProc("transfer", a, a)).pr.status = 403
       /\ Serve(NewProc("delete", a, Undefined)).pr.status = 403
       /\ Serve(NewProc("banish", a, group.owner)).pr.status = 403

\* C22: a delete by the owner answers 200 and leaves no Group record, no
\* JoinRequest of the group and the group in no user's joinedGroups; a delete
\* by anyone else answers 403 and removes nothing.
C22_DeleteContract ==
  \A pr \in SelfReqs("delete") :
    group # Null =>
      LET o == Serve(pr) IN
      IF pr.actor = group.owner
        THEN /\ o.pr.status = 200
             /\ o.db.group = Null
             /\ o.db.joinRequests = <<>>
             /\ \A u \in Users : o.db.joinedGroups[u] = 0
        ELSE o.pr.status = 403 /\ Untouched(o)

\* C23: whenever the Group record is absent, no JoinRequest of the group is
\* left and no user's joinedGroups holds the group; and after a delete of the
\* owner that answered 500, the same delete served again leaves the group
\* fully deleted.
C23_DeleteConverges ==
  /\ group = Null =>
       (joinRequests = <<>> /\ \A u \in Users : joinedGroups[u] = 0)
  /\ (/\ procs[1].op = "delete" /\ procs[1].pc = "done" /\ procs[1].status = 500
      /\ group # Null /\ procs[1].actor = group.owner) =>
       LET again == Run(DB, NewProc("delete", procs[1].actor, Undefined)) IN
       /\ again.db.group = Null
       /\ again.db.joinRequests = <<>>
       /\ \A u \in Users : again.db.joinedGroups[u] = 0

\* C24: whenever a message is persisted, its sender is a member of the group
\* at that moment, however the send interleaves with a leave, a removeMember
\* or a banish of the sender.
C24_SenderIsMemberAtPersist ==
  [][Len(messages') > Len(messages) =>
       messages'[Len(messages')].sender \in Members]_vars

\* C25: decrypting what encrypt returned for a non-empty text, with the same
\* key and the iv encrypt returned, gives the text back.
C25_RoundTrip ==
  (/\ cipher.phase = "decrypted"
   /\ cipher.useKey = cipher.key
   /\ cipher.useIv = cipher.iv) =>
    (~cipher.thrown /\ cipher.result = cipher.text)

\* C26: decrypting with another key than the one used to encrypt, or with an
\* altered iv, always fails and never returns a plaintext.
C26_WrongKeyOrIvFails ==
  (/\ cipher.phase = "decrypted"
   /\ (cipher.useKey # cipher.key \/ cipher.useIv # cipher.iv)) =>
    cipher.thrown

\* C27: once the group exists, no request of any route (join, leave, add or
\* remove member, banish, role update, ownership transfer, approve, decline,
\* settings update, delete, create, send message) leaves it with another
\* encryptionKey than the one it has.
C27_KeyIsImmutable ==
  group # Null =>
    \A pr \in AllReqs \cup SendReqs("sendMessage") \cup SendReqs("groupSendMessage") :
      LET o == Serve(pr) IN
      o.db.group # Null => o.db.group.encryptionKey = group.encryptionKey

\* A group with a stored message whose key survives a transfer, a leave, a
\* role update and a settings request that all get their answer.
C27_Witness ==
  /\ group # Null
  /\ group.encryptionKey \in Keys
  /\ Len(messages) > 0
  /\ \E a \in Users, t \in Users :
       /\ Serve(NewProc("transfer", a, t)).pr.status = 200
       /\ Serve(NewProc("transfer", a, t)).db.group # group
       /\ Serve(NewProc("leave", t, Undefined)).pr.status = 200
       /\ Serve([NewProc("updateRole", a, t) EXCEPT !.role = "admin"]).pr.status = 200
       /\ Serve(NewProc("settings", a, Undefined)).pr.status = 501

\* C28: whenever no request is in progress, the group is in the joinedGroups
\* of a user exactly when the user is in members, and at most once.
C28_IndexAgreesWithMembers ==
  (\A p \in Procs : ~InFlight(p)) =>
    \A u \in Users : joinedGroups[u] = (IF u \in Members THEN 1 ELSE 0)

\* C29: when a request on an existing group has been answered with a failure,
\* the Group record is the one the request read, and the JoinRequest the
\* request found is as it found it.
C29_FailureChangesNothing ==
  (/\ procs[1].pc = "done" /\ procs[1].status >= 400
   /\ procs[1].op # "create" /\ procs[1].g # Null) =>
    /\ group = procs[1].g
    /\ procs[1].req # 0 => joinRequests[procs[1].req].status = "pending"

\* C30: a step of an approve, a decline or a banish that writes the group, a
\* JoinRequest or a user's joinedGroups is taken only while the caller is the
\* owner of the stored group.
C30_RoleHeldAtMutation ==
  [][\A p \in Procs :
       (/\ procs'[p] # procs[p]
        /\ procs[p].op \in {"approve", "decline", "banish"}
        /\ <<group, joinRequests, joinedGroups>>' # <<group, joinRequests, joinedGroups>>)
       => (group # Null /\ procs[p].actor = group.owner)]_vars

\* C31: a join request that is approved or rejected has its processedAt set,
\* and a pending one has it unset.
C31_ProcessedAtFollowsStatus ==
  \A i \in 1..Len(joinRequests) :
    (joinRequests[i].status = "pending") <=> (joinRequests[i].processedAt = Undefined)

\* C32: a decline answered 200 turns the pending request of the user into a
\* rejected one with processedAt stamped and leaves the group and every
\* user's joinedGroups as they are; a decline by the owner with no pending
\* request of the user answers 404 and changes nothing.
C32_DeclineContract ==
  \A pr \in TargetReqs("decline") :
    group # Null =>
      LET o == Serve(pr)
          i == FindRequest(joinRequests, pr.target, {"pending"})
      IN
      /\ o.pr.status = 200 =>
           /\ i # 0
           /\ o.db.joinRequests[i].status = "rejected"
           /\ o.db.joinRequests[i].processedAt # Undefined
           /\ o.db.group = group
           /\ o.db.joinedGroups = joinedGroups
      /\ (pr.actor = group.owner /\ i = 0) => (o.pr.status = 404 /\ Untouched(o))

\* C33: once the owner's banish of a member has answered 200, the banished
\* user gets back in: in a public group by a join, in a private group by a
\* fresh submission (through either endpoint that submits) that the owner
\* then approves; each request succeeds and the user is a member again.
C33_BanishIsNoBlockList ==
  \A pr \in TargetReqs("banish") :
    (group # Null /\ pr.target \in Members /\ Serve(pr).pr.status = 200) =>
      LET d == Serve(pr).db
          u == pr.target
      IN
      /\ d.group.type = "public" =>
           LET j == Run(d, NewProc("join", u, Undefined)) IN
           j.pr.status = 200 /\ Includes(j.db.group.members, u)
      /\ d.group.type = "private" =>
           \A op \in {"join", "requestJoin"} :
             LET s == Run(d, NewProc(op, u, Undefined))
                 a == Run(s.db, NewProc("approve", d.group.owner, u))
             IN  /\ s.pr.status < 300
                 /\ a.pr.status = 200
                 /\ Includes(a.db.group.members, u)

\* C35: members holds each user at most once in every reachable state, also
\* when joins and approves for the same user are in flight together.
C35_MembersAreUnique ==
  group # Null => \A u \in UserIds : group.members[u] <= 1

\* C36: a submission for a pair that already has a pending request, made after
\* the other or racing with it, is answered with the conflict status 400 and
\* never with the internal error status 500.
C36_DuplicateIsConflict ==
  \A p \in Procs :
    (procs[p].pc = "done" /\ procs[p].op \in {"join", "requestJoin"}) =>
      procs[p].status # 500

\* C38: a createGroup answered 201 stores a group whose owner is the caller
\* and whose members and admins hold the caller once and nobody else, and adds
\* the group once to the caller's joinedGroups.
C38_CreateSeedsOwner ==
  \A pr \in CreateReqs :
    LET o == Serve(pr) IN
    o.pr.status = 201 =>
      /\ group = Null
      /\ o.db.group # Null
      /\ o.db.group.owner = pr.actor
      /\ o.db.group.members = Push(EmptyArr, pr.actor)
      /\ o.db.group.admins = Push(EmptyArr, pr.actor)
      /\ o.db.joinedGroups = [joinedGroups EXCEPT ![pr.actor] = @ + 1]

\* No group stored yet, and a create of a private group by user 2 answers 201.
C38_Witness ==
  /\ group = Null
  /\ \E pr \in CreateReqs :
       /\ pr.actor = 2
       /\ pr.gtype = "private"
       /\ Serve(pr).pr.status = 201
       /\ Includes(Serve(pr).db.group.members, 2)

\* C34: the role getGroupDetails reports for the caller is owner when the
\* caller owns the group, else admin when the caller is in admins, else
\* member when the caller is in members, else none; canPost is reported
\* exactly for the roles owner, admin and member, canManage exactly for owner
\* and admin.
C34_ReportedRole ==
  \A pr \in SelfReqs("details") :
    LET o == Serve(pr)
        role == IF group.owner = pr.actor THEN "owner"
                ELSE IF pr.actor \in Admins THEN "admin"
                ELSE IF pr.actor \in Members THEN "member" ELSE "none"
    IN  (group # Null /\ o.pr.status = 200) =>
          /\ o.pr.body.userRole = role
          /\ o.pr.body.canPost <=> (role \in {"owner", "admin", "member"})
          /\ o.pr.body.canManage <=> (role \in {"owner", "admin"})

\* Every request a client can send, and the call of the unmounted
\* messageController.getMessages.
EveryReq ==
  AllReqs \cup SendReqs("sendMessage") \cup SendReqs("groupSendMessage")
    \cup UNION {SelfReqs(op) :
                  op \in {"discover", "details", "listMembers", "groupGetMessages",
                          "getMessages"}}

\* C37: no response to any request holds the encryptionKey of the group: the
\* group documents (or parts of them) in the payload of create, discover,
\* details, member listing, message retrieval and every other route have no
\* encryptionKey path.
C37_KeyNeverInResponse ==
  \A pr \in EveryReq :
    LET b == Serve(pr).pr.body IN
    \A i \in 1..Len(b.groups) : "encryptionKey" \notin DOMAIN b.groups[i]

\* A public group with a stored message: discovery, details and the member
\* listing each answer 200 with the group in the payload.
C37_Witness ==
  /\ group # Null
  /\ Len(messages) > 0
  /\ \E u \in Users :
       /\ Len(Serve(NewProc("discover", u, Undefined)).pr.body.groups) = 1
       /\ Len(Serve(NewProc("details", u, Undefined)).pr.body.groups) = 1
       /\ Len(Serve(NewProc("listMembers", u, Undefined)).pr.body.groups) = 1

\* C39: message content is returned by either getMessages handler only to a
\* caller who is in members when the group is read; a caller who is not (who
\* left, was banished, or never joined) gets 403 and no content.
C39_ContentOnlyToMembers ==
  group # Null =>
    \A op \in {"groupGetMessages", "getMessages"} :
      \A pr \in SelfReqs(op) :
        LET o == Serve(pr) IN
        /\ o.pr.body.data # <<>> => pr.actor \in Members
        /\ pr.actor \notin Members => (o.pr.status = 403 /\ o.pr.body = EmptyBody)

\* A stored message whose sender has left the group since: the sender is
\* refused, and a member gets the text back from messageController.getMessages.
C39_Witness ==
  /\ group # Null
  /\ Len(messages) > 0
  /\ messages[1].sender \notin Members
  /\ Serve(NewProc("getMessages", messages[1].sender, Undefined)).pr.status = 403
  /\ \E u \in Members :
       /\ Serve(NewProc("getMessages", u, Undefined)).pr.status = 200
       /\ Serve(NewProc("getMessages", u, Undefined)).pr.body.data = <<<<104, 105>>>>

\* C40: for a private group, a caller who is not a member gets neither the
\* details nor the member list, and discovery returns public groups only.
C40_PrivateStaysPrivate ==
  group # Null =>
    /\ \A pr \in SelfReqs("discover") :
         \A i \in 1..Len(Serve(pr).pr.body.groups) :
           Serve(pr).pr.body.groups[i].type = "public"
    /\ group.type = "private" =>
         \A op \in {"details", "listMembers"} :
           \A pr \in SelfReqs(op) :
             pr.actor \notin Members =>
               (Serve(pr).pr.status >= 400 /\ Serve(pr).pr.body = EmptyBody)

\* A private group with a member besides the owner and a user outside it: the
\* outsider's member listing answers 403, the member's answers 200.
C40_Witness ==
  /\ group # Null
  /\ group.type = "private"
  /\ \E u \in Members \ {group.owner}, v \in Users \ Members :
       /\ Serve(NewProc("listMembers", u, Undefined)).pr.status = 200
       /\ Serve(NewProc("listMembers", v, Undefined)).pr.status = 403
       /\ Serve(NewProc("details", v, Undefined)).pr.status >= 400
       /\ Serve(NewProc("discover", v, Undefined)).pr.body.groups = <<>>

=============================================================================
